---- MODULE Spec2Model ----
(***************************************************************************)
(* A model of the video-ingestion core of FODCL_Multi_Draf_v2.5:           *)
(*   core/video_source.py    VideoSource    (the spec's StreamConnection)  *)
(*   core/camera_manager.py  CameraManager  (the spec's SourceRegistry)    *)
(*                                                                         *)
(* One VideoSource is modelled with every thread that touches it: the      *)
(* decode workers (_read_frames), the threads that call its public         *)
(* methods (start, stop, switch_transport_protocol) and one consumer       *)
(* calling get_frame.  A method is cut into steps at the points where      *)
(* another thread can observe or change the fields it uses.                *)
(***************************************************************************)
EXTENDS Integers, Sequences, FiniteSets, TLC

\* ------------------------------------------------------------- bounds
MaxWorkers == 2
MaxCallers == 2
MaxFrames == 5
MaxAttempts == 3
MaxFailures == 3
MaxListeners == 1
MaxSources == 4
MaxLoops == 2
MaxCallbacks == 2
MaxCaptures == 32
MaxRounds == 4
NumQueues == 3

\* --------------------------------------------------- program constants
MaxBufferSize == 60
MaxBackoff == 30
FailureSwitchThreshold == 3
MaxBufferEntries == 30

Workers == 1..MaxWorkers
Callers == (MaxWorkers + 1)..(MaxWorkers + MaxCallers)
Threads == Workers \cup Callers
Listeners == 1..MaxListeners
QIds == 1..NumQueues

\* the frame rates the one-second update can measure
FpsValues == {30}

\* The surroundings a run is checked in: the locator, transport and capacity
\* the source is constructed with, the caller threads and the methods they
\* use, the frames the source delivers, whether it fails (open or decode
\* raise), ends, or hangs longer than a join waits, which timers can fire at
\* a frame (the one-second fps update, the 30 s check), how many connection
\* attempts are followed, and whether a consumer and a CameraManager are
\* there.
Quiet == [url |-> "rtsp://cam", transport |-> "tcp", buffer_size |-> 1,
          callers |-> {MaxWorkers + 1}, ops |-> {"start", "stop"},
          frames |-> 0, faults |-> FALSE, ends |-> FALSE, slow |-> FALSE,
          ticks |-> {"none"}, attempts |-> MaxAttempts,
          consumer |-> FALSE, registry |-> FALSE]
AllOps == {"start", "stop", "switch"}
AllTicks == {"none", "second", "check"}
\* a source constructed without a locator
EmptyLocator ==
  [Quiet EXCEPT !.url = "", !.callers = Callers, !.ops = AllOps,
                !.consumer = TRUE, !.registry = TRUE]
\* a local file that is played to its end
LocalFile ==
  [Quiet EXCEPT !.url = "video.mp4", !.ops = AllOps, !.frames = 2,
                !.faults = TRUE, !.ends = TRUE, !.ticks = AllTicks,
                !.consumer = TRUE]
\* a camera that refuses connections and breaks off
Faulty ==
  [Quiet EXCEPT !.ops = AllOps, !.faults = TRUE, !.ends = TRUE,
                !.registry = TRUE]
\* two threads calling start and stop
TwoCallers == [Quiet EXCEPT !.callers = Callers, !.registry = TRUE]
\* a camera that hangs in av.open while it is stopped and switched
SlowJoin == [Quiet EXCEPT !.callers = Callers, !.ops = AllOps, !.slow = TRUE]
\* a camera read through a capacity of one, with a consumer
SmallBuffer ==
  [Quiet EXCEPT !.frames = MaxFrames - 2, !.ticks = AllTicks,
                !.consumer = TRUE]
\* a run long enough for the buffer to grow and shrink, with a consumer
Resizing ==
  [Quiet EXCEPT !.buffer_size = 2, !.frames = MaxFrames, !.ticks = AllTicks,
                !.attempts = 2, !.consumer = TRUE]
\* a camera that hangs in av.open and then refuses
SlowFaulty == [Quiet EXCEPT !.ops = AllOps, !.faults = TRUE, !.slow = TRUE]
\* a camera that refuses while two threads start it at once
DoubleStart ==
  [Quiet EXCEPT !.callers = Callers, !.ops = {"start"}, !.faults = TRUE,
                !.attempts = MaxAttempts + 2]
\* a camera that hangs and then delivers, stopped and started again
SlowFrames ==
  [Quiet EXCEPT !.buffer_size = 2, !.frames = MaxFrames, !.slow = TRUE,
                !.ticks = {"none", "check"}, !.attempts = 2]
\* a camera that refuses one of two workers started at once and delivers
\* frames, with gaps, to the other
Stalling ==
  [Quiet EXCEPT !.callers = Callers, !.ops = {"start"}, !.frames = 1,
                !.faults = TRUE, !.attempts = MaxAttempts + 2]
Envs == {EmptyLocator, LocalFile, Faulty, TwoCallers, SlowJoin, SlowFaulty,
         DoubleStart, SmallBuffer, Resizing, SlowFrames, Stalling}

VARIABLES
  \* VideoSource fields (video_source.py:35-73)
  source_url, is_local_file, rtsp_transport,
  initial_buffer_size, buffer_size,
  connection_failures, frame_drop_rate, received_frames_count,
  dropped_frames_count, connection_ok, is_running, connection_attempts,
  connection_callback, fps,
  queues,        \* the queue.Queue objects: id -> [items, maxsize]
  frame_queue,   \* self._frame_queue: the id of the current queue object
  stop_event,    \* self._stop_event
  thread,        \* self._thread: 0 is None, else the worker last launched
  dummy_frame,   \* the stored placeholder image
  \* threads
  pc,            \* thread -> position in the code
  ctx,           \* thread -> the method its stop()/start() was called from
  joinee,        \* thread -> the worker its stop() joins
  result,        \* caller -> [op, val] of the public call that returned last
  wl,            \* worker -> the locals of _read_frames/_update_buffer_size,
                 \* and the delays it has slept since it last opened the
                 \* source (retries)
  next_frame,    \* the next frame the camera produces
  stopped,       \* a stop() of the running source has returned, with no
                 \* start() launched during it and no other call under
                 \* way, and no start() has begun since
  \* consumer
  gpc, gref, got,
  status,        \* what get_status returned last
  \* CameraManager (camera_manager.py:29-33)
  cameras,           \* self.cameras in key order: <<[id, src], ...>>
  active_camera_id,  \* "none" is None
  camera_configs,    \* config "cameras": id -> absent, enabled or disabled
  sources,           \* the VideoSource objects add_camera has made
  mgr_result,        \* the CameraManager call that returned last
  \* SyncManager fields (sync_manager.py:21-35)
  sync_enabled, sync_processing, sync_interval,
  sync_thread,       \* self.sync_thread: 0 is None, else a loop thread
  sync_stop_event,   \* self.stop_event
  process_callbacks, \* the list of callbacks
  frame_buffers,     \* the dict in key order: <<[id, buf], ...>>, a buffer
                     \* being the list of captures, each known by its timestamp
  sync_clock,        \* time.time() as the number of captures taken
  lp,                \* loop thread -> the locals of _sync_loop and its calls
  dispatched,        \* loop thread -> the callback calls of its iteration
  spc,               \* where the caller of enable_sync stands
  bt,                \* the thread inside connect_all or disconnect_all
  sync_rounds,       \* how many times the interval has been adjusted
  senv,              \* the surroundings of the SyncManager in this run
  \* get_recommended_transport (video_source.py:478-512)
  probe,             \* the locals of the call and what its probes opened with
  penv,              \* the transports the camera answers on in this run
  conns,             \* several VideoSource objects side by side: index -> fields
  \* CameraManager (camera_manager.py:33) and what listeners observed
  connection_listeners, listener_calls, owed,
  notified,      \* the last two values passed to connection_callback
  run,           \* history of the pushes since the buffer was last empty
  env            \* the surroundings of this run: who calls, what the source does

cfgVars == <<source_url, initial_buffer_size, connection_callback, dummy_frame,
             env>>
bufVars == <<buffer_size, queues, frame_queue>>
cntVars == <<received_frames_count, dropped_frames_count, frame_drop_rate, fps>>
runVars == <<is_running, stop_event, thread>>
netVars == <<is_local_file, rtsp_transport, connection_failures,
             connection_attempts>>
vsVars == <<cfgVars, bufVars, cntVars, runVars, netVars, connection_ok>>
thVars == <<pc, ctx, joinee, result, wl, next_frame, stopped>>
\* the readers' side: the caller of get_frame and of get_status
mgrVars == <<cameras, active_camera_id, camera_configs, sources, mgr_result>>
syncVars == <<sync_enabled, sync_processing, sync_interval, sync_thread,
              sync_stop_event, process_callbacks, frame_buffers, sync_clock,
              lp, dispatched, spc, bt, sync_rounds, senv>>
probeVars == <<probe, penv>>
sideVars == <<probeVars, conns>>
uiVars == <<status, mgrVars, syncVars, sideVars>>
conVars == <<gpc, gref, got, uiVars>>
noteVars == <<notified, listener_calls, owed>>
vars == <<vsVars, thVars, conVars, connection_listeners, noteVars, run>>

\* ------------------------------------------------------------ helpers
Min(a, b) == IF a <= b THEN a ELSE b
Max(a, b) == IF a >= b THEN a ELSE b

\* str.lower().startswith("rtsp://")
IsRtsp(url) == url = "rtsp://cam"

\* queue.Queue(maxsize=n)
NewQueue(n) == [items |-> <<>>, maxsize |-> n]
\* Queue.full(): 0 < maxsize <= qsize
QFull(q) == q.maxsize > 0 /\ Len(q.items) >= q.maxsize
\* Queue.empty()
QEmpty(q) == q.items = <<>>
\* the queue after Queue.get / Queue.get_nowait took its item
QPop_newest(q) == [q EXCEPT !.items = SubSeq(q.items, 1, Len(q.items) - 1)]
QPop(q) == [q EXCEPT !.items = Tail(q.items)]
\* the item Queue.get returns: the oldest
QFirst(q) == Head(q.items)
\* the queue after Queue.put(f) (the caller has checked there is room)
QPut(q, f) == [q EXCEPT !.items = Append(q.items, f)]

\* the last n elements of s: s[-n:]
LastN(s, n) == IF Len(s) <= n THEN s ELSE SubSeq(s, Len(s) - n + 1, Len(s))

\* numpy.ndarray.copy(): a new array, not an alias of the stored one
\* newest is history: the highest frame number the earlier get_frame calls
\* returned
CopyFrame ==
  [kind |-> "dummy", id |-> 0, alias |-> FALSE, dirty |-> FALSE, newest |-> 0]
NoFrame ==
  [kind |-> "none", id |-> 0, alias |-> FALSE, dirty |-> FALSE, newest |-> 0]
RealFrame(f) ==
  [kind |-> "frame", id |-> f, alias |-> FALSE, dirty |-> FALSE, newest |-> 0]
Seen(g) == IF g.kind = "frame" /\ g.id > g.newest THEN g.id ELSE g.newest

\* A queue object no thread refers to any more is garbage; its id is reused.
QueueInUse(q) ==
  \/ q = frame_queue
  \/ gpc = "waiting" /\ gref = q
  \/ \E w \in Workers : pc[w] \in {"w_grow", "w_shrink"} /\ wl[w].old_queue = q
  \/ \E w \in Workers : pc[w] \in {"w_put_wait", "w_refill_wait"} /\
                         wl[w].put_queue = q
FreeQueues == {q \in QIds : ~QueueInUse(q)}
FreshQueue == CHOOSE q \in FreeQueues : \A r \in FreeQueues : q <= r

\* the last two notifications, newest last
Window(s) == LastN(s, 2)
\* _check_network_quality (video_source.py:237-255), times 1000 * t, for the
\* drop rate d / t; a rate never computed is 0.
ScoreNum(fpsv, d, t, f) == (10 * fpsv + 30 * Max(0, 10 - f)) * t + 400 * (t - d)
QualityBelow03(fpsv, rate, f) ==
  LET d == IF rate[2] = 0 THEN 0 ELSE rate[1]
      t == IF rate[2] = 0 THEN 1 ELSE rate[2]
  IN  ScoreNum(fpsv, d, t, f) < 300 * t

\* _should_switch_transport (video_source.py:257-270) with f failures
ShouldSwitchTransport_late(f) ==
  \/ f > FailureSwitchThreshold
  \/ QualityBelow03(fps, frame_drop_rate, f)
ShouldSwitchTransport(f) ==
  \/ f >= FailureSwitchThreshold
  \/ QualityBelow03(fps, frame_drop_rate, f)

\* CameraManager._on_camera_connection_changed (camera_manager.py:283-285)
\* emits the Qt signal; it never walks connection_listeners.
OnCameraConnectionChanged(calls, v) == calls

\* connection_callback(v), when one is set (video_source.py:134-135, 166-167)
Callback(v, changed) ==
  IF connection_callback = "registry"
  THEN /\ notified' = Window(Append(notified, v))
       /\ listener_calls' = OnCameraConnectionChanged(listener_calls, v)
       /\ owed' = [l \in Listeners |->
                     owed[l] \/ (changed /\ l \in connection_listeners)]
  ELSE UNCHANGED noteVars

\* _notify_connection_change (video_source.py:162-167)
NotifyConnectionChange(v) ==
  IF connection_ok # v
  THEN /\ connection_ok' = v
       /\ Callback(v, TRUE)
  ELSE UNCHANGED <<connection_ok, noteVars>>

\* The history of the pushes made since the buffer was last empty.  It stops
\* being valid when a frame is taken out other than by a push's own drop, and
\* stops being clean when the drop counter is reset or the queue replaced.
FreshRun(d, c) == [valid |-> TRUE, clean |-> TRUE, pushed |-> <<>>, drop0 |-> d, cap |-> c]
BrokenRun == [valid |-> FALSE, clean |-> FALSE, pushed |-> <<>>, drop0 |-> 0, cap |-> 0]
\* after a thread other than the pushing worker took frames out of queue q
RunAfterTake(q, d, c) == IF q.items = <<>> THEN FreshRun(d, c) ELSE BrokenRun
\* after the drop counter was reset to d or the capacity set to c
RunAfterReset(q, d, c) ==
  IF q.items = <<>> THEN FreshRun(d, c) ELSE [run EXCEPT !.clean = FALSE]

\* get_status has not been called
NoStatus == [is_local_file |-> FALSE, computed |-> FALSE, network_quality |-> -1]
\* the locals of a worker that is not running
NoLocals == [backoff_delay |-> 1, old_queue |-> 0, new_buffer_size |-> 0,
             frames |-> <<>>, frame_array |-> 0, put_queue |-> 0,
             retries |-> 0, promised |-> "none"]

\* ------------------------------------------------- SyncManager state
Loops == 1..MaxLoops
ProcessCallbacks == 1..MaxCallbacks
\* a rational n / d in lowest terms, d > 0
RECURSIVE Gcd(_, _)
Gcd(a, b) == IF b = 0 THEN a ELSE Gcd(b, a % b)
Frac(n, d) == LET g == Gcd(n, d) IN <<n \div g, d \div g>>
\* an iterator over a dict (cameras.items(), frame_buffers.items()): the size
\* the dict had when the iteration began and the keys yielded so far
NoIter == [size |-> 0, seen |-> {}]
NewIter(dict) == [size |-> Len(dict), seen |-> {}]
\* next() raises RuntimeError when the dict has changed size
IterFails(it, dict) == Len(dict) # it.size
IterLeft(it, dict) == {i \in DOMAIN dict : dict[i].id \notin it.seen}
IterDone(it, dict) == IterLeft(it, dict) = {}
IterItem(it, dict) ==
  dict[CHOOSE i \in IterLeft(it, dict) : \A j \in IterLeft(it, dict) : i <= j]
IterPast(it, id) == [it EXCEPT !.seen = @ \cup {id}]
\* the locals of a loop thread that is not running
NoLoop == [pc |-> "off", it |-> NoIter, cam |-> "none", stamp |-> 0,
           cbi |-> 0, cb |-> 0, min_fps |-> 0]
\* no thread is inside connect_all or disconnect_all
NoBatch == [pc |-> "idle", op |-> "none", it |-> NoIter, left |-> 0]
\* a SyncManager nobody uses
SyncOff == [cams |-> {}, ops |-> {}, oks |-> {FALSE}, fps |-> {0},
            raises |-> FALSE, slow |-> FALSE, captures |-> 0, rounds |-> 0,
            callbacks |-> 0]
\* SyncManager.__init__ (sync_manager.py:21-35)
SyncManagerInit(e) ==
  /\ senv = e
  /\ sync_enabled = FALSE
  /\ sync_processing = FALSE
  /\ sync_interval = Frac(1, 30)
  /\ sync_thread = 0
  /\ sync_stop_event = FALSE
  /\ process_callbacks = <<>>
  /\ frame_buffers = <<>>
  /\ sync_clock = 0
  /\ lp = [l \in Loops |-> NoLoop]
  /\ dispatched = [l \in Loops |-> <<>>]
  /\ spc = "idle"
  /\ bt = NoBatch
  /\ sync_rounds = 0

\* ------------------------------------------------ CameraManager state
\* the camera ids in use, in the order a configuration lists them
IdOrder == <<"main", "cam2", "cam3">>
CameraIds == {IdOrder[i] : i \in DOMAIN IdOrder}
SrcIds == 1..MaxSources
\* a VideoSource not made yet, and one just constructed
\* (video_source.py:35-73)
NoSource == [state |-> "unmade", has_url |-> FALSE]
NewSource(has_url) == [state |-> "idle", has_url |-> has_url]
\* VideoSource.start() on the object r as the manager sees it
\* (video_source.py:104-120): refused when running or without a locator
SourceStarts(r) == r.state = "idle" /\ r.has_url
SourceStart(r) == IF SourceStarts(r) THEN [r EXCEPT !.state = "running"] ELSE r
\* VideoSource.stop() (video_source.py:122-144)
SourceStop(r) == IF r.state = "running" THEN [r EXCEPT !.state = "idle"] ELSE r
\* VideoSource.set_source_url with a locator (video_source.py:96-102)
SourceSetUrl(r) == [SourceStop(r) EXCEPT !.has_url = TRUE]

\* the keys of the dict, the position of a key, the object under a key
Keys(cams) == {cams[i].id : i \in DOMAIN cams}
KeyAt(cams, id) == CHOOSE i \in DOMAIN cams : cams[i].id = id
SourceOf(cams, id) == cams[KeyAt(cams, id)].src
\* self.cameras[camera_id] = video_source: a key already there keeps its place
DictSet(cams, id, s) ==
  IF id \in Keys(cams)
  THEN [cams EXCEPT ![KeyAt(cams, id)] = [id |-> id, src |-> s]]
  ELSE Append(cams, [id |-> id, src |-> s])
\* del self.cameras[camera_id]
RECURSIVE DictDel(_, _)
DictDel(cams, id) ==
  IF cams = <<>> THEN <<>>
  ELSE IF Head(cams).id = id THEN Tail(cams)
  ELSE <<Head(cams)>> \o DictDel(Tail(cams), id)
\* the object the next VideoSource(...) makes
FreeSources(srcs) == {s \in SrcIds : srcs[s].state = "unmade"}
FreshSource(srcs) == CHOOSE s \in FreeSources(srcs) : \A r \in FreeSources(srcs) : s <= r

\* no "cameras" entry in the configuration
NoConfigs == [id \in CameraIds |-> "absent"]
\* the manager after add_camera(id, ..., auto_connect) (camera_manager.py:
\* 104-139), as <<cameras, active_camera_id, camera_configs, sources>>
Added_alwaysActive(m, id, has_url, auto) ==
  LET s == FreshSource(m[4])
      made == IF auto THEN SourceStart(NewSource(has_url))
              ELSE NewSource(has_url)
  IN  << DictSet(m[1], id, s), id, [m[3] EXCEPT ![id] = "enabled"],
         [m[4] EXCEPT ![s] = made] >>
Added(m, id, has_url, auto) ==
  LET s == FreshSource(m[4])
      made == IF auto THEN SourceStart(NewSource(has_url))
              ELSE NewSource(has_url)
  IN  << DictSet(m[1], id, s),
         IF m[2] = "none" THEN id ELSE m[2],
         [m[3] EXCEPT ![id] = "enabled"],
         [m[4] EXCEPT ![s] = made] >>
\* the loop of _load_camera_configs over the enabled entries from the i-th
\* on (camera_manager.py:72-83)
RECURSIVE LoadFrom(_, _, _)
LoadFrom(m, cfg, i) ==
  IF i > Len(IdOrder) THEN m
  ELSE IF cfg[IdOrder[i]] = "enabled"
  THEN LoadFrom(Added(m, IdOrder[i], TRUE, FALSE), cfg, i + 1)
  ELSE LoadFrom(m, cfg, i + 1)
\* CameraManager.__init__ with the configuration cfg (camera_manager.py:29-36,
\* 51-83): an empty one gets the entry "main"
LoadedManager(cfg) ==
  LET start == IF cfg = NoConfigs THEN [cfg EXCEPT !["main"] = "enabled"]
               ELSE cfg
  IN  LoadFrom(<< <<>>, "none", start, [s \in SrcIds |-> NoSource] >>,
               start, 1)
\* the manager's fields are those of m
ManagerIs(m) ==
  /\ cameras = m[1]
  /\ active_camera_id = m[2]
  /\ camera_configs = m[3]
  /\ sources = m[4]
  /\ mgr_result = [op |-> "init", id |-> "none", val |-> TRUE]
\* the manager and its SyncManager (camera_manager.py:26-27) once constructed
LoadCameraConfigs(cfg) == ManagerIs(LoadedManager(cfg)) /\ SyncManagerInit(SyncOff)


\* -------------------------------------------------------- probe state
Transports == {"tcp", "udp"}
\* no get_recommended_transport call under way
NoProbe == [pc |-> "idle", original_transport |-> "none",
            tcp_success |-> FALSE, udp_success |-> FALSE,
            opened |-> <<>>, ret |-> "none"]
\* a camera that answers on both transports
AnyTransport == [works |-> Transports]
ProbeIdle == probe = NoProbe /\ penv = AnyTransport

\* ------------------------------------------------- sources side by side
MaxConns == 2
MaxDecoded == 2
MaxConnBuffer == 3
ConnIds == 1..MaxConns
\* VideoSource.__init__ (video_source.py:35-73) with buffer_size=2, and the
\* backoff_delay local of its worker
NewConn == [pc |-> "dead", buffer |-> <<>>, initial_buffer_size |-> 2,
            buffer_size |-> 2, connection_ok |-> FALSE, is_running |-> FALSE,
            stop_event |-> FALSE, connection_failures |-> 0,
            backoff_delay |-> 1, rtsp_transport |-> "tcp", decoded |-> 0]
NoConns == [i \in ConnIds |-> NewConn]

\* ---------------------------------------------------------------- Init
\* VideoSource.__init__ (video_source.py:35-73) with auto_connect=False, in a
\* CameraManager with no listener yet (camera_manager.py:33).
SourceInit(e) ==
  /\ env = e
  /\ source_url = e.url
  /\ is_local_file = FALSE
  /\ rtsp_transport = e.transport
  /\ initial_buffer_size = e.buffer_size
  /\ buffer_size = initial_buffer_size
  /\ connection_failures = 0
  /\ frame_drop_rate = <<0, 0>>
  /\ received_frames_count = 0
  /\ dropped_frames_count = 0
  /\ connection_ok = FALSE
  /\ is_running = FALSE
  /\ connection_attempts = 0
  /\ connection_callback = "none"
  /\ fps = 0
  /\ queues = [q \in QIds |-> NewQueue(IF q = 1 THEN initial_buffer_size ELSE 0)]
  /\ frame_queue = 1
  /\ stop_event = FALSE
  /\ thread = 0
  /\ dummy_frame = "placeholder"
  /\ pc = [t \in Threads |-> IF t \in Workers THEN "dead" ELSE "idle"]
  /\ ctx = [t \in Threads |-> "none"]
  /\ joinee = [t \in Threads |-> 0]
  /\ result = [t \in Callers |-> "none"]
  /\ wl = [w \in Workers |-> NoLocals]
  /\ next_frame = 1
  /\ stopped = FALSE
  /\ gpc = "idle"
  /\ gref = 0
  /\ got = NoFrame
  /\ status = NoStatus
  /\ ProbeIdle
  /\ conns = NoConns
  /\ connection_listeners = {}
  /\ listener_calls = [l \in Listeners |-> 0]
  /\ owed = [l \in Listeners |-> FALSE]
  /\ notified = <<>>
  /\ run = FreshRun(0, initial_buffer_size)
\* the source of camera "main" in the CameraManager of an empty configuration
InitIn(e) == SourceInit(e) /\ LoadCameraConfigs(NoConfigs)
Init == \E e \in Envs : InitIn(e)

\* ------------------------------------------------- returning from calls
\* where thread t continues when its stop() returns
AfterStop(t) == IF ctx[t] = "switch" THEN "switch_sleep" ELSE "idle"
\* where thread t continues when switch_transport_protocol returns:
\* a worker at video_source.py:413, a caller back in its own code
AfterSwitch(t) == IF t \in Workers THEN "w_switched" ELSE "idle"
\* where thread t continues when its start() returns
AfterStart(t) == IF ctx[t] = "switch" THEN AfterSwitch(t) ELSE "idle"
\* start() returns v to thread t: a caller keeps it in result; the start()
\* inside switch_transport_protocol ends that call and its value is dropped
Returns(t, v) ==
  /\ ctx' = [ctx EXCEPT ![t] = "none"]
  /\ result' = IF t \in Callers /\ ctx[t] = "none"
               THEN [result EXCEPT ![t] = IF v THEN "true" ELSE "false"]
               ELSE result
\* thread t begins a public call: a caller thread that is idle and, in this
\* run, uses the method
Begins(t, op) == t \in env.callers /\ op \in env.ops /\ pc[t] = "idle"
Forgets(t) == IF t \in Callers THEN [result EXCEPT ![t] = "none"] ELSE result

\* --------------------------------------------------------------- start
\* VideoSource.start, the two checks (video_source.py:106-112)
StartGuard_noRunningCheck == source_url # ""
StartGuard_noUrlCheck == ~is_running
StartGuard == ~is_running /\ source_url # ""
StartCheck(t) ==
  /\ Begins(t, "start") \/ pc[t] = "switch_sleep"
  /\ IF StartGuard
     THEN /\ pc' = [pc EXCEPT ![t] = "start_launch"]
          /\ result' = Forgets(t)
          /\ UNCHANGED ctx
     ELSE /\ pc' = [pc EXCEPT ![t] = AfterStart(t)]
          /\ Returns(t, FALSE)
  /\ stopped' = FALSE
  /\ UNCHANGED <<vsVars, joinee, wl, next_frame, conVars,
                 connection_listeners, noteVars, run>>

\* a thread slot nobody runs in and nobody is joining
FreeWorkers ==
  {w \in Workers : pc[w] = "dead" /\
                   ~\E t \in Threads : pc[t] = "stop_join" /\ joinee[t] = w}

\* VideoSource.start, the launch (video_source.py:114-120)
StartLaunch(t) ==
  /\ pc[t] = "start_launch"
  /\ FreeWorkers # {}
  /\ LET w == CHOOSE x \in FreeWorkers : \A y \in FreeWorkers : x <= y
     IN  /\ is_local_file' = ~IsRtsp(source_url)
         /\ stop_event' = FALSE
         /\ thread' = w
         /\ is_running' = TRUE
         /\ pc' = [pc EXCEPT ![w] = "w_init", ![t] = AfterStart(t)]
  /\ Returns(t, TRUE)
  /\ UNCHANGED <<cfgVars, bufVars, cntVars, rtsp_transport,
                 connection_failures, connection_attempts, connection_ok,
                 joinee, wl, next_frame, stopped, conVars, connection_listeners,
                 noteVars, run>>

\* ---------------------------------------------------------------- stop
\* VideoSource.stop on a running source, up to the join
\* (video_source.py:127-129), called from method c.  Thread.join on the
\* calling thread itself raises RuntimeError: raised in a worker's except
\* handler, it ends _read_frames.
StopRunning(t, c) ==
  /\ stop_event' = TRUE
  /\ IF thread = 0
     THEN /\ pc' = [pc EXCEPT ![t] = "stop_flags"]
          /\ ctx' = [ctx EXCEPT ![t] = c]
          /\ UNCHANGED <<joinee, wl>>
     ELSE IF thread = t
     THEN /\ pc' = [pc EXCEPT ![t] = "dead"]
          /\ wl' = [wl EXCEPT ![t] = NoLocals]
          /\ ctx' = [ctx EXCEPT ![t] = "none"]
          /\ UNCHANGED joinee
     ELSE /\ pc' = [pc EXCEPT ![t] = "stop_join"]
          /\ joinee' = [joinee EXCEPT ![t] = thread]
          /\ ctx' = [ctx EXCEPT ![t] = c]
          /\ UNCHANGED wl

\* VideoSource.stop called by a caller thread (video_source.py:124-129)
StopBegin(t) ==
  /\ Begins(t, "stop")
  /\ result' = Forgets(t)
  /\ IF ~is_running
     THEN UNCHANGED <<pc, ctx, stop_event, joinee, wl>>
     ELSE StopRunning(t, "none")
  /\ UNCHANGED <<cfgVars, bufVars, cntVars, is_running, thread, netVars,
                 connection_ok, next_frame, stopped, conVars, connection_listeners,
                 noteVars, run>>

\* join(timeout=5) returns because the worker has ended
JoinDone(t) ==
  /\ pc[t] = "stop_join"
  /\ pc[joinee[t]] = "dead"
  /\ pc' = [pc EXCEPT ![t] = "stop_flags"]
  /\ joinee' = [joinee EXCEPT ![t] = 0]
  /\ UNCHANGED <<vsVars, ctx, result, wl, next_frame, stopped, conVars,
                 connection_listeners, noteVars, run>>

\* A worker is held for seconds only where it waits on something outside the
\* program: av.open, the next frame of container.decode, a put on a full
\* queue, or a join of its own.
Blocked(w) ==
  pc[w] \in {"w_open", "w_decode", "stop_join", "w_put_wait", "w_refill_wait"}

\* join(timeout=5) returns because the five seconds are over: the worker is
\* left running (video_source.py:129)
JoinTimeout(t) ==
  /\ pc[t] = "stop_join"
  /\ env.slow
  /\ Blocked(joinee[t])
  /\ pc' = [pc EXCEPT ![t] = "stop_flags"]
  /\ joinee' = [joinee EXCEPT ![t] = 0]
  /\ UNCHANGED <<vsVars, ctx, result, wl, next_frame, stopped, conVars,
                 connection_listeners, noteVars, run>>

\* VideoSource.stop, the flags and the callback (video_source.py:130-135):
\* the callback is called whether or not connection_ok changes
StopNotify == Callback(FALSE, connection_ok)
StopFlags(t) ==
  /\ pc[t] = "stop_flags"
  /\ is_running' = FALSE
  /\ connection_ok' = FALSE
  /\ StopNotify
  /\ pc' = [pc EXCEPT ![t] = "stop_drain"]
  /\ UNCHANGED <<cfgVars, bufVars, cntVars, stop_event, thread, netVars,
                 ctx, joinee, result, wl, next_frame, stopped, conVars,
                 connection_listeners, run>>

\* thread u is inside start, stop or switch_transport_protocol
InCall(u) ==
  pc[u] \in {"start_launch", "stop_join", "stop_flags", "stop_drain",
             "switch_sleep", "switch_call"}

\* VideoSource.stop, the drain of the queue (video_source.py:137-144)
Drain(q) == [q EXCEPT !.items = <<>>]
StopDrain(t) ==
  /\ pc[t] = "stop_drain"
  /\ queues' = [queues EXCEPT ![frame_queue] = Drain(queues[frame_queue])]
  /\ run' = RunAfterTake(queues'[frame_queue], dropped_frames_count, buffer_size)
  /\ pc' = [pc EXCEPT ![t] = AfterStop(t)]
  /\ stopped' = /\ ctx[t] = "none"
                /\ stop_event
                /\ \A u \in Threads \ {t} : ~InCall(u)
  /\ UNCHANGED <<cfgVars, buffer_size, frame_queue, cntVars, runVars, netVars,
                 connection_ok, ctx, result, joinee, wl, next_frame, conVars,
                 connection_listeners, noteVars>>

\* ------------------------------------------- switch_transport_protocol
Toggle(tr) == IF tr = "tcp" THEN "udp" ELSE "tcp"
\* video_source.py:276-292: nothing for a local file; else toggle, and when
\* running stop(), sleep and start() (the last two from "switch_sleep")
SwitchBegin(t) ==
  /\ Begins(t, "switch") \/ pc[t] = "switch_call"
  /\ result' = Forgets(t)
  /\ IF is_local_file
     THEN /\ pc' = [pc EXCEPT ![t] = AfterSwitch(t)]
          /\ UNCHANGED <<rtsp_transport, ctx, stop_event, joinee, wl>>
     ELSE /\ rtsp_transport' = Toggle(rtsp_transport)
          /\ IF is_running
             THEN StopRunning(t, "switch")
             ELSE /\ pc' = [pc EXCEPT ![t] = AfterSwitch(t)]
                  /\ UNCHANGED <<ctx, stop_event, joinee, wl>>
  /\ UNCHANGED <<cfgVars, bufVars, cntVars, is_running, thread, is_local_file,
                 connection_failures, connection_attempts, connection_ok,
                 next_frame, stopped, conVars, connection_listeners, noteVars, run>>

\* ------------------------------------------------ the decode worker
\* the worker thread ends: _read_frames returned or raised
Ends(w) ==
  /\ pc' = [pc EXCEPT ![w] = "dead"]
  /\ wl' = [wl EXCEPT ![w] = NoLocals]
Goes(w, to) == pc' = [pc EXCEPT ![w] = to]

\* self.connection_attempts += 1 (video_source.py:299, 425)
NextAttempt_same(n) == n
NextAttempt(n) == n + 1

\* _read_frames before its loop (video_source.py:298-306)
WInit(w) ==
  /\ pc[w] = "w_init"
  /\ connection_attempts < env.attempts
  /\ connection_attempts' = NextAttempt(connection_attempts)
  /\ received_frames_count' = 0
  /\ dropped_frames_count' = 0
  /\ wl' = [wl EXCEPT ![w].backoff_delay = 1, ![w].retries = 0]
  /\ run' = RunAfterReset(queues[frame_queue], 0, buffer_size)
  /\ Goes(w, "w_top")
  /\ UNCHANGED <<cfgVars, bufVars, frame_drop_rate, fps, runVars,
                 is_local_file, rtsp_transport, connection_failures,
                 connection_ok, ctx, joinee, result, next_frame, stopped, conVars,
                 connection_listeners, noteVars>>

\* while not self._stop_event.is_set() (video_source.py:308, 428)
WTop(w) ==
  /\ pc[w] = "w_top"
  /\ IF stop_event THEN Ends(w) ELSE Goes(w, "w_open") /\ UNCHANGED wl
  /\ UNCHANGED <<vsVars, ctx, joinee, result, next_frame, stopped, conVars,
                 connection_listeners, noteVars, run>>

\* av.open succeeds (video_source.py:320-337)
WOpenOk(w) ==
  /\ pc[w] = "w_open"
  /\ NotifyConnectionChange(TRUE)
  /\ connection_failures' = 0
  /\ wl' = [wl EXCEPT ![w].backoff_delay = 1, ![w].retries = 0,
                      ![w].promised = "none"]
  /\ Goes(w, "w_decode")
  /\ UNCHANGED <<cfgVars, bufVars, cntVars, runVars, is_local_file,
                 rtsp_transport, connection_attempts, ctx, joinee, result,
                 next_frame, stopped, conVars, connection_listeners, run>>

\* av.open, or the stream lookup after it, raises (video_source.py:320-329)
WOpenFails(w) ==
  /\ pc[w] = "w_open"
  /\ env.faults
  /\ wl' = [wl EXCEPT ![w].promised = "none"]
  /\ Goes(w, "w_except")
  /\ UNCHANGED <<vsVars, ctx, joinee, result, next_frame, stopped, conVars,
                 connection_listeners, noteVars, run>>

\* container.decode yields a frame (video_source.py:339-368): leave the loop
\* when stopped; else count it, and once a second update fps, and every 30
\* seconds go on to _update_buffer_size
WDecodeFrame(w) ==
  /\ pc[w] = "w_decode"
  /\ next_frame <= env.frames
  /\ IF stop_event
     THEN /\ Goes(w, "w_closed")
          /\ UNCHANGED <<received_frames_count, fps, wl, next_frame>>
     ELSE /\ received_frames_count' = received_frames_count + 1
          /\ wl' = [wl EXCEPT ![w].frame_array = next_frame]
          /\ next_frame' = next_frame + 1
          /\ \E tick \in env.ticks :
               /\ IF tick = "none" THEN fps' = fps ELSE fps' \in FpsValues
               /\ Goes(w, IF tick = "check" THEN "w_resize" ELSE "w_full")
  /\ UNCHANGED <<cfgVars, bufVars, dropped_frames_count, frame_drop_rate,
                 runVars, netVars, connection_ok, ctx, joinee, result, stopped,
                 conVars,
                 connection_listeners, noteVars, run>>

\* container.decode is exhausted: the file or the stream ended
WDecodeEnd(w) ==
  /\ pc[w] = "w_decode"
  /\ env.ends
  /\ Goes(w, "w_closed")
  /\ UNCHANGED <<vsVars, ctx, joinee, result, wl, next_frame, stopped, conVars,
                 connection_listeners, noteVars, run>>

\* container.decode raises
WDecodeFails(w) ==
  /\ pc[w] = "w_decode"
  /\ env.faults
  /\ Goes(w, "w_except")
  /\ UNCHANGED <<vsVars, ctx, joinee, result, wl, next_frame, stopped, conVars,
                 connection_listeners, noteVars, run>>

\* ---------------------------------------------- _update_buffer_size
\* int(buffer_size * 1.5) capped (video_source.py:189)
GrownSize(c) == Min((3 * c) \div 2, MaxBufferSize)
\* int(buffer_size * 0.8) floored at the baseline (video_source.py:210)
ShrunkSize_unfloored(c, b) == (4 * c) \div 5
ShrunkSize(c, b) == Max((4 * c) \div 5, b)
\* frame_drop_rate > 0.1 and frame_drop_rate < 0.01, for the rate d / t
RateAbove10(d, t) == t > 0 /\ 10 * d > t
RateBelow1(d, t) == t = 0 \/ 100 * d < t

\* the counters are reset (video_source.py:233-235)
ResetCounters ==
  /\ received_frames_count' = 0
  /\ dropped_frames_count' = 0

\* _update_buffer_size up to the new queue (video_source.py:176-196, 208-217)
WResize(w) ==
  /\ pc[w] = "w_resize"
  /\ LET d == dropped_frames_count
         t == received_frames_count + dropped_frames_count
         grow == RateAbove10(d, t)
         shrink == ~grow /\ RateBelow1(d, t) /\ buffer_size > initial_buffer_size
         new == IF grow THEN GrownSize(buffer_size)
                ELSE IF shrink THEN ShrunkSize(buffer_size, initial_buffer_size)
                ELSE buffer_size
     IN IF is_local_file
        THEN /\ Goes(w, "w_full")
             /\ UNCHANGED <<bufVars, cntVars, wl, run>>
        ELSE /\ frame_drop_rate' = IF t > 0 THEN <<d, t>> ELSE <<0, 0>>
             /\ IF new # buffer_size
                THEN /\ FreeQueues # {}
                     /\ frame_queue' = FreshQueue
                     /\ queues' = [queues EXCEPT ![FreshQueue] = NewQueue(new)]
                     /\ wl' = [wl EXCEPT ![w].old_queue = frame_queue,
                                         ![w].new_buffer_size = new]
                     /\ run' = [run EXCEPT !.clean = FALSE]
                     /\ Goes(w, IF grow THEN "w_grow" ELSE "w_shrink")
                     /\ UNCHANGED <<buffer_size, received_frames_count,
                                    dropped_frames_count, fps>>
                ELSE /\ ResetCounters
                     /\ run' = RunAfterReset(queues[frame_queue], 0, buffer_size)
                     /\ Goes(w, "w_full")
                     /\ UNCHANGED <<bufVars, fps, wl>>
  /\ UNCHANGED <<cfgVars, runVars, netVars, connection_ok, ctx, joinee, result,
                 next_frame, stopped, conVars, connection_listeners, noteVars>>

\* the rebuild is over: the new size is recorded and the counters reset
\* (video_source.py:207, 231, 233-235)
ResizeDone(w) ==
  /\ buffer_size' = wl[w].new_buffer_size
  /\ ResetCounters
  /\ run' = RunAfterReset(queues[frame_queue], 0, buffer_size')
  /\ wl' = [wl EXCEPT ![w].old_queue = 0, ![w].new_buffer_size = 0,
                      ![w].frames = <<>>]
  /\ Goes(w, "w_full")

\* one turn of the transfer loop of the grow branch (video_source.py:199-207):
\* a frame for which the new queue has no room is discarded
WGrow(w) ==
  /\ pc[w] = "w_grow"
  /\ LET old == wl[w].old_queue IN
     IF QEmpty(queues[old])
     THEN /\ ResizeDone(w)
          /\ UNCHANGED <<queues, frame_queue>>
     ELSE /\ queues' =
               IF QFull(queues[frame_queue])
               THEN [queues EXCEPT ![old] = QPop(@)]
               ELSE [queues EXCEPT ![old] = QPop(@),
                                   ![frame_queue] = QPut(@, QFirst(queues[old]))]
          /\ run' = IF QFull(queues[frame_queue]) THEN BrokenRun ELSE run
          /\ UNCHANGED <<buffer_size, frame_queue, received_frames_count,
                         dropped_frames_count, wl, pc>>
  /\ UNCHANGED <<cfgVars, frame_drop_rate, fps, runVars, netVars,
                 connection_ok, ctx, joinee, result, next_frame, stopped, conVars,
                 connection_listeners, noteVars>>

\* one turn of the drain loop of the shrink branch (video_source.py:220-225),
\* then the slice frames[-new_buffer_size:] (video_source.py:228)
WShrink(w) ==
  /\ pc[w] = "w_shrink"
  /\ LET old == wl[w].old_queue IN
     IF QEmpty(queues[old])
     THEN /\ wl' = [wl EXCEPT ![w].frames = LastN(@, wl[w].new_buffer_size)]
          /\ run' = IF Len(wl[w].frames) > wl[w].new_buffer_size
                    THEN BrokenRun ELSE run
          /\ Goes(w, "w_refill")
          /\ UNCHANGED queues
     ELSE /\ queues' = [queues EXCEPT ![old] = QPop(@)]
          /\ wl' = [wl EXCEPT ![w].frames = Append(@, QFirst(queues[old]))]
          /\ UNCHANGED <<pc, run>>
  /\ UNCHANGED <<cfgVars, buffer_size, frame_queue, cntVars, runVars, netVars,
                 connection_ok, ctx, joinee, result, next_frame, stopped, conVars,
                 connection_listeners, noteVars>>

\* where the frame loop goes after a push (video_source.py:383-389, 339)
AfterPut(stalled) ==
  IF ~is_local_file /\ stalled /\ ShouldSwitchTransport(connection_failures)
  THEN "w_closed" ELSE "w_decode"
\* the transport in use when the worker logs "will try different transport"
\* (video_source.py:388), "none" when it does not
Promised(stalled) ==
  IF AfterPut(stalled) = "w_closed" THEN rtsp_transport ELSE "none"

\* one put of the refill loop of the shrink branch (video_source.py:228-231).
\* Queue.put is called on the object self._frame_queue names at the call; when
\* that queue is full the call waits inside that object
WRefill(w) ==
  /\ pc[w] = "w_refill"
  /\ IF wl[w].frames = <<>>
     THEN /\ ResizeDone(w)
          /\ UNCHANGED <<queues, frame_queue>>
     ELSE IF QFull(queues[frame_queue])
     THEN /\ wl' = [wl EXCEPT ![w].put_queue = frame_queue]
          /\ Goes(w, "w_refill_wait")
          /\ UNCHANGED <<bufVars, received_frames_count,
                         dropped_frames_count, run>>
     ELSE /\ queues' = [queues EXCEPT ![frame_queue] = QPut(@, Head(wl[w].frames))]
          /\ wl' = [wl EXCEPT ![w].frames = Tail(@)]
          /\ UNCHANGED <<buffer_size, frame_queue, received_frames_count,
                         dropped_frames_count, pc, run>>
  /\ UNCHANGED <<cfgVars, frame_drop_rate, fps, runVars, netVars,
                 connection_ok, ctx, joinee, result, next_frame, stopped, conVars,
                 connection_listeners, noteVars>>

\* a put that waited goes through once the queue it waits in has room
\* (video_source.py:229, 377): a refill put goes back to its loop, a push
\* goes on to the stall check
PutWaitDone(w) ==
  /\ pc[w] \in {"w_put_wait", "w_refill_wait"}
  /\ ~QFull(queues[wl[w].put_queue])
  /\ LET f == IF pc[w] = "w_put_wait" THEN wl[w].frame_array
              ELSE Head(wl[w].frames)
     IN  queues' = [queues EXCEPT ![wl[w].put_queue] = QPut(@, f)]
  /\ run' = BrokenRun
  /\ IF pc[w] = "w_put_wait"
     THEN \E stalled \in BOOLEAN :
            /\ wl' = [wl EXCEPT ![w].frame_array = 0, ![w].put_queue = 0,
                                ![w].promised = Promised(stalled)]
            /\ Goes(w, AfterPut(stalled))
     ELSE /\ wl' = [wl EXCEPT ![w].frames = Tail(@), ![w].put_queue = 0]
          /\ Goes(w, "w_refill")
  /\ UNCHANGED <<cfgVars, buffer_size, frame_queue, cntVars, runVars, netVars,
                 connection_ok, ctx, joinee, result, next_frame, stopped, conVars,
                 connection_listeners, noteVars>>

\* ------------------------------------------------------------ the push
\* if self._frame_queue.full() (video_source.py:371)
WFull(w) ==
  /\ pc[w] = "w_full"
  /\ Goes(w, IF QFull(queues[frame_queue]) THEN "w_drop" ELSE "w_put")
  /\ UNCHANGED <<vsVars, ctx, joinee, result, wl, next_frame, stopped, conVars,
                 connection_listeners, noteVars, run>>

\* get_nowait and the drop count; queue.Empty is passed over
\* (video_source.py:372-376)
WDrop(w) ==
  /\ pc[w] = "w_drop"
  /\ IF QEmpty(queues[frame_queue])
     THEN UNCHANGED <<queues, dropped_frames_count>>
     ELSE /\ queues' = [queues EXCEPT ![frame_queue] = QPop(@)]
          /\ dropped_frames_count' = dropped_frames_count + 1
  /\ Goes(w, "w_put")
  /\ UNCHANGED <<cfgVars, buffer_size, frame_queue, received_frames_count,
                 frame_drop_rate, fps, runVars, netVars, connection_ok, ctx,
                 joinee, result, wl, next_frame, stopped, conVars,
                 connection_listeners, noteVars, run>>

\* put (video_source.py:377): into the current queue when it has room, else
\* the call waits inside that queue object; then the stall check of a live
\* source, the time since the frame before being over 5 s or not
\* (video_source.py:383-389)
WPut(w) ==
  /\ pc[w] = "w_put"
  /\ IF QFull(queues[frame_queue])
     THEN /\ wl' = [wl EXCEPT ![w].put_queue = frame_queue]
          /\ Goes(w, "w_put_wait")
          /\ UNCHANGED <<queues, run>>
     ELSE /\ queues' = [queues EXCEPT ![frame_queue] = QPut(@, wl[w].frame_array)]
          /\ run' = IF run.valid
                    THEN [run EXCEPT !.pushed = Append(@, wl[w].frame_array)]
                    ELSE run
          /\ \E stalled \in BOOLEAN :
               /\ wl' = [wl EXCEPT ![w].frame_array = 0,
                                   ![w].promised = Promised(stalled)]
               /\ Goes(w, AfterPut(stalled))
  /\ UNCHANGED <<cfgVars, buffer_size, frame_queue, cntVars, runVars, netVars,
                 connection_ok, ctx, joinee, result, next_frame, stopped, conVars,
                 connection_listeners, noteVars>>

\* after the frame loop (video_source.py:391-401): a local file is over and
\* the thread ends; a live source goes on to reconnect
WClosed(w) ==
  /\ pc[w] = "w_closed"
  /\ NotifyConnectionChange(FALSE)
  /\ IF is_local_file THEN Ends(w) ELSE Goes(w, "w_retry") /\ UNCHANGED wl
  /\ UNCHANGED <<cfgVars, bufVars, cntVars, runVars, netVars, ctx, joinee,
                 result, next_frame, stopped, conVars, connection_listeners, run>>

\* the except handler (video_source.py:403-412)
WExcept(w) ==
  /\ pc[w] = "w_except"
  /\ connection_failures < MaxFailures
  /\ NotifyConnectionChange(FALSE)
  /\ connection_failures' = connection_failures + 1
  /\ Goes(w, IF ~is_local_file /\ ShouldSwitchTransport(connection_failures')
             THEN "switch_call" ELSE "w_retry")
  /\ UNCHANGED <<cfgVars, bufVars, cntVars, runVars, is_local_file,
                 rtsp_transport, connection_attempts, ctx, joinee, result, wl,
                 next_frame, stopped, conVars, connection_listeners, run>>

\* back from switch_transport_protocol (video_source.py:413)
WSwitched(w) ==
  /\ pc[w] = "w_switched"
  /\ wl' = [wl EXCEPT ![w].backoff_delay = 1]
  /\ Goes(w, "w_retry")
  /\ UNCHANGED <<vsVars, ctx, joinee, result, next_frame, stopped, conVars,
                 connection_listeners, noteVars, run>>

\* min(backoff_delay * 2, 30) (video_source.py:424)
NextBackoff(b) == Min(b * 2, MaxBackoff)

\* the reconnection logic (video_source.py:416-426): unless stopped, sleep
\* backoff_delay seconds, watching the stop event, then double the delay
WRetry(w) ==
  /\ pc[w] = "w_retry"
  /\ IF stop_event
     THEN UNCHANGED <<wl, connection_attempts>>
     ELSE /\ connection_attempts < env.attempts
          /\ wl' = [wl EXCEPT ![w].backoff_delay = NextBackoff(@),
                              ![w].retries = @ + 1]
          /\ connection_attempts' = NextAttempt(connection_attempts)
  /\ Goes(w, "w_top")
  /\ UNCHANGED <<cfgVars, bufVars, cntVars, runVars, is_local_file,
                 rtsp_transport, connection_failures, connection_ok, ctx,
                 joinee, result, next_frame, stopped, conVars, connection_listeners,
                 noteVars, run>>

\* ----------------------------------------------------------- get_frame
\* get_frame reads self._frame_queue and calls get(timeout) on that object
\* (video_source.py:157)
GetFrameCall ==
  /\ env.consumer
  /\ gpc = "idle"
  /\ gpc' = "waiting"
  /\ gref' = frame_queue
  /\ got' = [NoFrame EXCEPT !.newest = Seen(got)]
  /\ UNCHANGED <<vsVars, thVars, uiVars, connection_listeners, noteVars, run>>

\* Queue.get(timeout) returns the oldest item of a queue that is not empty
GetFramePop ==
  /\ gpc = "waiting"
  /\ ~QEmpty(queues[gref])
  /\ got' = [RealFrame(QFirst(queues[gref])) EXCEPT !.newest = got.newest]
  /\ queues' = [queues EXCEPT ![gref] = QPop(@)]
  /\ run' = IF gref = frame_queue
            THEN RunAfterTake(queues'[gref], dropped_frames_count, buffer_size)
            ELSE BrokenRun
  /\ gpc' = "idle"
  /\ gref' = 0
  /\ UNCHANGED <<cfgVars, buffer_size, frame_queue, cntVars, runVars, netVars,
                 connection_ok, thVars, uiVars, connection_listeners,
                 noteVars>>

\* Queue.get(timeout) raises queue.Empty when the time is over and the queue
\* still empty: a copy of the placeholder is returned (video_source.py:158-160)
GetFrameTimeout ==
  /\ gpc = "waiting"
  /\ QEmpty(queues[gref])
  /\ got' = [CopyFrame EXCEPT !.newest = got.newest]
  /\ gpc' = "idle"
  /\ gref' = 0
  /\ UNCHANGED <<vsVars, thVars, uiVars, connection_listeners, noteVars, run>>

\* the consumer writes into the array it was given
MutateReturned ==
  /\ gpc = "idle"
  /\ got.kind = "dummy"
  /\ ~got.dirty
  /\ got' = [got EXCEPT !.dirty = TRUE]
  /\ dummy_frame' = IF got.alias THEN "scribbled" ELSE dummy_frame
  /\ UNCHANGED <<source_url, initial_buffer_size, connection_callback, env,
                 bufVars, cntVars, runVars, netVars, connection_ok, thVars,
                 gpc, gref, uiVars, connection_listeners, noteVars, run>>

\* ------------------------------------------------------- CameraManager
\* add_camera wires the source's callback to the manager
\* (camera_manager.py:116-117, video_source.py:79-81)
SetConnectionCallback ==
  /\ env.registry
  /\ connection_callback = "none"
  /\ connection_callback' = "registry"
  /\ UNCHANGED <<source_url, initial_buffer_size, dummy_frame, env, bufVars,
                 cntVars, runVars, netVars, connection_ok, thVars, conVars,
                 connection_listeners, noteVars, run>>

\* add_connection_listener (camera_manager.py:287-294)
AddConnectionListener(l) ==
  /\ env.registry
  /\ l \notin connection_listeners
  /\ connection_listeners' = connection_listeners \cup {l}
  /\ UNCHANGED <<vsVars, thVars, conVars, noteVars, run>>

\* remove_connection_listener (camera_manager.py:296-299)
RemoveConnectionListener(l) ==
  /\ l \in connection_listeners
  /\ connection_listeners' = connection_listeners \ {l}
  /\ owed' = [owed EXCEPT ![l] = FALSE]
  /\ UNCHANGED <<vsVars, thVars, conVars, notified, listener_calls, run>>

\* ---------------------------------------------------------------- Next
MethodStep(t) ==
  \/ StartCheck(t)
  \/ StartLaunch(t)
  \/ StopBegin(t)
  \/ JoinDone(t)
  \/ JoinTimeout(t)
  \/ StopFlags(t)
  \/ StopDrain(t)
  \/ SwitchBegin(t)

WorkerStep(w) ==
  \/ WInit(w)
  \/ WTop(w)
  \/ WOpenOk(w)
  \/ WOpenFails(w)
  \/ WDecodeFrame(w)
  \/ WDecodeEnd(w)
  \/ WDecodeFails(w)
  \/ WResize(w)
  \/ WGrow(w)
  \/ WShrink(w)
  \/ WRefill(w)
  \/ WFull(w)
  \/ WDrop(w)
  \/ WPut(w)
  \/ PutWaitDone(w)
  \/ WClosed(w)
  \/ WExcept(w)
  \/ WSwitched(w)
  \/ WRetry(w)

ConsumerStep ==
  \/ GetFrameCall
  \/ GetFramePop
  \/ GetFrameTimeout
  \/ MutateReturned

RegistryStep ==
  \/ SetConnectionCallback
  \/ \E l \in Listeners : AddConnectionListener(l)
  \/ \E l \in Listeners : RemoveConnectionListener(l)

Next ==
  \/ \E t \in Threads : MethodStep(t)
  \/ \E w \in Workers : WorkerStep(w)
  \/ ConsumerStep
  \/ RegistryStep

Spec == Init /\ [][Next]_vars

\* ------------------------------------------------------------- claims
\* the frames get_frame would be served from: the current queue object
Buffer == queues[frame_queue].items
\* worker w is inside the loop of _read_frames (video_source.py:308-428)
InLoop(w) == pc[w] \notin {"dead", "w_init"}
\* a push is half done: past the full() test and the drop, before the put
Pushing == \E w \in Workers : pc[w] \in {"w_put", "w_put_wait"}
\* no public call is under way and no worker thread is alive
AtRest ==
  /\ \A t \in Callers : pc[t] = "idle"
  /\ \A w \in Workers : pc[w] = "dead"
\* the pushes of history r overflowed capacity r.cap: one drop was counted
\* for each frame beyond it and the buffer holds the last r.cap frames pushed
DropOldest(r) ==
  Len(r.pushed) > r.cap =>
    /\ dropped_frames_count - r.drop0 = Len(r.pushed) - r.cap
    /\ Buffer = LastN(r.pushed, r.cap)
\* get_frame returns in this step what Queue.get gave it
PopsFrame == gpc = "waiting" /\ gpc' = "idle" /\ got'.kind = "frame"
\* get_frame returns in this step the placeholder
PopsPlaceholder == gpc = "waiting" /\ gpc' = "idle" /\ got'.kind = "dummy"

\* C1: in every reachable state the number of buffered frames is at most the
\* current capacity buffer_size.
C1_BufferWithinCapacity == Len(Buffer) <= buffer_size

\* a push completes in this step and no other push is half done
PushDone ==
  /\ run'.valid
  /\ Len(run'.pushed) = Len(run.pushed) + 1
  /\ ~Pushing'

\* C2, as stated: when a push completes the c + k frames (k > 0) pushed into
\* an empty buffer of capacity c with no consumer pop in between,
\* dropped_frames_count has grown by k and the buffer holds the last c frames
\* pushed, oldest first.
C2_DropOldestAlways == [][PushDone => DropOldest(run)']_vars

\* C2, amended: the same, provided that between the first push and the last
\* neither the drop counter was reset (by the 30 s check or by a worker
\* starting) nor the queue replaced; and the next get_frame then returns the
\* oldest of the last c frames pushed.
C2_DropOldestWithinPeriod ==
  /\ [][(PushDone /\ run'.clean) => DropOldest(run)']_vars
  /\ [][(/\ run.valid /\ run.clean /\ ~Pushing
         /\ Len(run.pushed) > run.cap
         /\ gref = frame_queue
         /\ PopsFrame)
        => got'.id = LastN(run.pushed, run.cap)[1]]_vars
\* a buffer of capacity c after c + 2 pushes with nothing reset in between
C2_Overflowed ==
  /\ run.valid /\ run.clean /\ ~Pushing
  /\ Len(run.pushed) = run.cap + 2

\* C3: at most one decode worker is executing the decode loop at any time.
C3_AtMostOneWorker == Cardinality({w \in Workers : InLoop(w)}) <= 1

\* C4: start() on a source that is already running launches no worker,
\* returns false, and leaves is_running, the stop event, the thread handle
\* and every worker as they were.
C4_StartWhileRunning ==
  [][\A t \in Threads :
       (StartCheck(t) /\ is_running) =>
         /\ pc'[t] # "start_launch"
         /\ pc[t] = "idle" => result'[t] = "false"
         /\ UNCHANGED <<is_running, stop_event, thread, wl>>
         /\ \A w \in Workers \ {t} : pc'[w] = pc[w]]_vars
\* a caller's start() has returned false on a source that has a locator and
\* is running
C4_RefusedWhileRunning ==
  \E t \in Callers : result[t] = "false" /\ source_url # "" /\ is_running

\* C5: the connection callback is invoked only when connection_ok changes:
\* no two consecutive notifications carry the same value.
C5_NotificationsAlternate ==
  \A i \in 1..(Len(notified) - 1) : notified[i] # notified[i + 1]

\* C6: every listener registered with add_connection_listener and not yet
\* removed is invoked for every connection-state transition of the source.
C6_ListenersInvoked == \A l \in Listeners : owed[l] => listener_calls[l] > 0

\* C7: whenever no start()/stop() call is in progress and no decode worker
\* is alive, is_running is false and connection_ok is false.
C7_NoStaleStatus == AtRest => (~is_running /\ ~connection_ok)

\* C8: after stop() has returned on a running source and until the next
\* start(), is_running is false, connection_ok is false and the buffer is
\* empty, also when the join timed out.
C8_StoppedIsQuiet ==
  stopped => (~is_running /\ ~connection_ok /\ Buffer = <<>>)

\* C9: get_frame returns the oldest buffered frame if one becomes available
\* within the timeout, and the placeholder only otherwise: when it returns
\* the placeholder the buffer holds no frame.
C9_PlaceholderOnlyWhenEmpty == [][PopsPlaceholder => Buffer = <<>>]_vars

\* C10: start() on a source with an empty locator returns false, launches no
\* worker and leaves is_running false and connection_ok, the attempt counter
\* and the buffer unchanged.
C10_StartWithoutLocator ==
  [][\A t \in Callers :
       (StartCheck(t) /\ source_url = "") =>
         /\ result'[t] = "false"
         /\ pc'[t] = "idle"
         /\ ~is_running'
         /\ \A w \in Workers : pc'[w] = "dead"
         /\ UNCHANGED <<is_running, connection_ok, connection_attempts,
                        bufVars, stop_event, thread>>]_vars
\* a caller's start() has returned false on a source without a locator
C10_RefusedWithoutLocator ==
  \E t \in Callers : result[t] = "false" /\ source_url = ""

ExpectedDelay(k) == Min(2 ^ k, MaxBackoff)
\* worker w sleeps its backoff delay in this step
Sleeps(w) == pc[w] = "w_retry" /\ ~stop_event /\ pc'[w] = "w_top"

\* C12: the retries of one worker that follow each other with no successful
\* open in between sleep 1, 2, 4, 8, 16, 30, 30, ... seconds, and the first
\* retry after a successful open sleeps 1.
C12_BackoffSequence ==
  [][\A w \in Workers :
       Sleeps(w) => wl[w].backoff_delay = ExpectedDelay(wl[w].retries)]_vars

\* worker w leaves its except handler in this step (video_source.py:403-412)
Handled(w) == pc[w] = "w_except" /\ pc'[w] # "w_except"
\* thread t makes its call of switch_transport_protocol in this step
Switches(t) ==
  \/ pc[t] = "switch_call" /\ pc'[t] # "switch_call"
  \/ t \in Callers /\ SwitchBegin(t)

\* C13: the failure that brings the count of a live source to 3 makes the
\* worker call switch_transport_protocol once, and that call toggles the
\* transport; with fewer than 3 failures and a quality score of at least
\* 0.3 the worker goes on to its retry without a switch; the worker calls
\* the switch from nowhere else and the transport changes in no other step.
C13_SwitchAtThreeFailures ==
  /\ [][\A w \in Workers :
          (Handled(w) /\ ~is_local_file) =>
            /\ connection_failures' = connection_failures + 1
            /\ connection_failures' >= FailureSwitchThreshold =>
                 pc'[w] = "switch_call"
            /\ (/\ connection_failures' < FailureSwitchThreshold
                /\ ~QualityBelow03(fps, frame_drop_rate, connection_failures'))
               => pc'[w] = "w_retry"]_vars
  /\ [][\A w \in Workers :
          (pc'[w] = "switch_call" /\ pc[w] # "switch_call") => Handled(w)]_vars
  /\ [][\A w \in Workers :
          (Switches(w) /\ ~is_local_file) =>
            rtsp_transport' = Toggle(rtsp_transport)]_vars
  /\ [][rtsp_transport' # rtsp_transport =>
          \E t \in Threads : Switches(t)]_vars
\* the third failure in a row has sent a worker to switch the transport
C13_ThirdFailure ==
  \E w \in Workers :
    /\ pc[w] = "switch_call"
    /\ connection_failures = FailureSwitchThreshold
    /\ ~is_local_file

\* the worker threads that are alive
LiveWorkers == {w \in Workers : pc[w] # "dead"}
\* the switch_transport_protocol call of thread t returns in this step: its
\* start() returns (video_source.py:294)
SwitchReturns(t) == ctx[t] = "switch" /\ ctx'[t] = "none"

\* C14: switch_transport_protocol on a running live source, called by an
\* outside thread or by the worker itself, goes through its stop() and
\* start(), and when it returns the source is running and the worker in
\* self._thread is alive, to open the source with the toggled transport; on
\* a local file the call changes nothing.  The return is judged where one
\* outside thread makes the calls, so that no other caller's stop() or start()
\* falls inside the switch.  (That this worker is the only one alive is C3.)
C14_SwitchRestarts ==
  [][\A t \in Threads :
       /\ (Switches(t) /\ is_running /\ ~is_local_file) =>
            pc'[t] \in {"stop_join", "stop_flags"}
       /\ (SwitchReturns(t) /\ Cardinality(env.callers) = 1) =>
            /\ is_running'
            /\ thread' \in LiveWorkers'
       /\ (Switches(t) /\ is_local_file) =>
            UNCHANGED <<vsVars, wl, run>>]_vars

\* ------------------------------------------------ the numeric functions
\* _check_network_quality (video_source.py:237-255) as <<n, m>> for the score
\* n / m: the weighted sum, clamped to [0, 1]
CheckNetworkQuality_unclamped(fpsv, rate, f) ==
  LET d == IF rate[2] = 0 THEN 0 ELSE rate[1]
      t == IF rate[2] = 0 THEN 1 ELSE rate[2]
  IN  <<ScoreNum(fpsv, d, t, f), 1000 * t>>
CheckNetworkQuality(fpsv, rate, f) ==
  LET d == IF rate[2] = 0 THEN 0 ELSE rate[1]
      t == IF rate[2] = 0 THEN 1 ELSE rate[2]
  IN  <<Max(0, Min(1000 * t, ScoreNum(fpsv, d, t, f))), 1000 * t>>
\* round(x, 2) of x = q[1] / q[2], in hundredths (video_source.py:446)
Round2(q) == (200 * q[1] + q[2]) \div (2 * q[2])

\* get_status (video_source.py:430-447): the score is computed for a live
\* source only
GetStatus ==
  /\ status' =
       [is_local_file |-> is_local_file,
        computed |-> ~is_local_file,
        network_quality |->
          IF is_local_file THEN 100
          ELSE Round2(CheckNetworkQuality(fps, frame_drop_rate,
                                          connection_failures))]
  /\ UNCHANGED <<vsVars, thVars, gpc, gref, got, mgrVars, syncVars, sideVars,
                 connection_listeners, noteVars, run>>

\* the capacities _update_buffer_size can reach from the baseline b
RECURSIVE SizesFrom(_, _)
SizesFrom(S, b) ==
  LET T == S \cup {GrownSize(c) : c \in S}
             \cup {ShrunkSize(c, b) : c \in {x \in S : x > b}}
  IN  IF T = S THEN S ELSE SizesFrom(T, b)
Sizes(b) == SizesFrom({b}, b)

\* the inputs of the numeric functions: the baseline capacities, the
\* <<received, dropped>> counts of a check period, the measured frame rates,
\* the failure counts and the drop rates <<d, t>> of the period before
Baselines == {1, 2, 10, 30}
Counts == {<<0, 0>>, <<10, 0>>, <<199, 1>>, <<99, 1>>, <<9, 1>>, <<17, 3>>,
           <<5, 5>>}
NumFps == {0, 15, 30, 60}
NumFailures == {0, 3, 10, 12}
Rates == {<<0, 0>>, <<1, 10>>, <<1, 2>>, <<1, 1>>}

\* a source whose worker (thread 1) is about to call _update_buffer_size
\* (video_source.py:368) with an empty buffer
NumInit ==
  \E b \in Baselines, n \in Counts, v \in NumFps, f \in NumFailures,
     r \in Rates, local \in BOOLEAN :
    \E c \in Sizes(b) :
      /\ env = Quiet
      /\ source_url = IF local THEN "video.mp4" ELSE "rtsp://cam"
      /\ is_local_file = local
      /\ rtsp_transport = "tcp"
      /\ initial_buffer_size = b
      /\ buffer_size = c
      /\ connection_failures = f
      /\ frame_drop_rate = r
      /\ received_frames_count = n[1]
      /\ dropped_frames_count = n[2]
      /\ connection_ok = TRUE
      /\ is_running = TRUE
      /\ connection_attempts = 1
      /\ connection_callback = "none"
      /\ fps = v
      /\ queues = [q \in QIds |-> NewQueue(IF q = 1 THEN c ELSE 0)]
      /\ frame_queue = 1
      /\ stop_event = FALSE
      /\ thread = 1
      /\ dummy_frame = "placeholder"
      /\ pc = [t \in Threads |-> IF t = 1 THEN "w_resize"
                                 ELSE IF t \in Workers THEN "dead" ELSE "idle"]
      /\ ctx = [t \in Threads |-> "none"]
      /\ joinee = [t \in Threads |-> 0]
      /\ result = [t \in Callers |-> "none"]
      /\ wl = [w \in Workers |-> NoLocals]
      /\ next_frame = 1
      /\ stopped = FALSE
      /\ gpc = "idle"
      /\ gref = 0
      /\ got = NoFrame
      /\ status = NoStatus
      /\ ProbeIdle
      /\ conns = NoConns
      /\ connection_listeners = {}
      /\ listener_calls = [l \in Listeners |-> 0]
      /\ owed = [l \in Listeners |-> FALSE]
      /\ notified = <<>>
      /\ run = FreshRun(0, c)
      /\ LoadCameraConfigs(NoConfigs)

NumNext ==
  \/ GetStatus
  \/ \E w \in Workers : WResize(w)
  \/ \E w \in Workers : WGrow(w)
  \/ \E w \in Workers : WShrink(w)
  \/ \E w \in Workers : WRefill(w)

NumSpec == NumInit /\ [][NumNext]_vars

\* worker w evaluates the resize rule on a live source
Evaluates(w) == pc[w] = "w_resize" /\ pc'[w] # "w_resize" /\ ~is_local_file
\* worker w leaves _update_buffer_size on a live source
Evaluated(w) ==
  /\ pc[w] \in {"w_resize", "w_grow", "w_refill"}
  /\ pc'[w] = "w_full"
  /\ ~is_local_file
\* the capacity the rule asks for, from the counts of the period, the
\* capacity c and the baseline b
ExpectedCapacity(received, dropped, c, b) ==
  LET total == received + dropped IN
  IF total > 0 /\ 100 * dropped > 10 * total
  THEN Min((15 * c) \div 10, 60)
  ELSE IF (total = 0 \/ 100 * dropped < total) /\ c > b
  THEN Max((8 * c) \div 10, b)
  ELSE c

\* C15: an evaluation of the resize rule on a live source, with drop rate
\* d = dropped / (received + dropped) (0 when nothing was counted), capacity c
\* and baseline b, asks for min(floor(1.5 c), 60) when d > 0.10, for
\* max(floor(0.8 c), b) when d < 0.01 and c > b, and for c otherwise; the
\* capacity it asks for is the capacity recorded when it ends, and the
\* received and dropped counters are then 0.  d = 0.15 at c = 30 asks for 45,
\* d = 0.005 at c = 45 over b = 30 for 36.
C15_ResizeRule ==
  [][\A w \in Workers :
       /\ Evaluates(w) =>
            LET e == ExpectedCapacity(received_frames_count,
                                      dropped_frames_count, buffer_size,
                                      initial_buffer_size)
            IN  /\ IF e = buffer_size
                   THEN pc'[w] = "w_full" /\ buffer_size' = buffer_size
                   ELSE /\ wl'[w].new_buffer_size = e
                        /\ queues'[frame_queue'].maxsize = e
                /\ (/\ received_frames_count = 17
                    /\ dropped_frames_count = 3
                    /\ buffer_size = 30) => wl'[w].new_buffer_size = 45
                /\ (/\ received_frames_count = 199
                    /\ dropped_frames_count = 1
                    /\ buffer_size = 45
                    /\ initial_buffer_size = 30) => wl'[w].new_buffer_size = 36
       /\ Evaluated(w) =>
            /\ pc[w] # "w_resize" => buffer_size' = wl[w].new_buffer_size
            /\ queues'[frame_queue'].maxsize = buffer_size'
            /\ received_frames_count' = 0
            /\ dropped_frames_count' = 0]_vars

\* C15 witness: the evaluation at capacity 30 with 3 of 20 frames dropped has
\* ended, with capacity 45 over the baseline 30 and the counters at 0
C15_GrownTo45 ==
  /\ ~is_local_file
  /\ pc[1] = "w_full"
  /\ initial_buffer_size = 30
  /\ frame_drop_rate = <<3, 20>>
  /\ buffer_size = 45
  /\ received_frames_count = 0
  /\ dropped_frames_count = 0

\* the score _check_network_quality returns in this state
Score == CheckNetworkQuality(fps, frame_drop_rate, connection_failures)
\* the drop rate the score is computed from is 0, is 1
NoDrops == frame_drop_rate[2] = 0 \/ frame_drop_rate[1] = 0
AllDropped == frame_drop_rate[2] > 0 /\ frame_drop_rate[1] = frame_drop_rate[2]

CappedScore ==
  LET d == IF frame_drop_rate[2] = 0 THEN 0 ELSE frame_drop_rate[1]
      t == IF frame_drop_rate[2] = 0 THEN 1 ELSE frame_drop_rate[2]
      sum == (10 * Min(fps, 30) + 30 * Max(0, 10 - connection_failures)) * t
             + 400 * (t - d)
  IN  <<Max(0, Min(1000 * t, sum)), 1000 * t>>

\* C17: the network quality score get_status reports for a live source is
\* clamp01(0.3 min(fps / 30, 1) + 0.4 (1 - drop rate)
\*         + 0.3 max(0, 1 - failures / 10)):
\* the frame-rate term is capped at 0.3, also above 30 frames a second.
C17_FrameRateTermCapped ==
  [][(GetStatus /\ ~is_local_file) =>
        status'.network_quality = Round2(CappedScore)]_vars

\* worker w of a local-file source leaves _read_frames at the end of the
\* file (video_source.py:395-398)
FileEnds(w) == pc[w] = "w_closed" /\ is_local_file /\ pc'[w] = "dead"

\* C18: when the worker of a local-file source exhausts the file it makes no
\* further connection attempt, connection_ok becomes false and is_running
\* becomes false; a start() called once no worker is alive is then let
\* through to launch a new worker.
C18_FileEndStops ==
  [][/\ \A w \in Workers :
          FileEnds(w) =>
            /\ connection_attempts' = connection_attempts
            /\ ~connection_ok'
            /\ ~is_running'
     /\ \A t \in Callers :
          (/\ StartCheck(t)
           /\ ctx[t] = "none"
           /\ is_local_file
           /\ source_url # ""
           /\ LiveWorkers = {}) => pc'[t] = "start_launch"]_vars

\* ---------------------------------------------- CameraManager methods
\* everything but the manager's own fields
sourceSide == <<vsVars, thVars, gpc, gref, got, status, syncVars, sideVars,
                connection_listeners,
                noteVars, run>>
Returned(op, id, val) == mgr_result' = [op |-> op, id |-> id, val |-> val]

\* add_camera(camera_id, ..., url, auto_connect) (camera_manager.py:85-140)
AddCamera(id, has_url, auto) ==
  /\ FreeSources(sources) # {}
  /\ LET m == Added(<<cameras, active_camera_id, camera_configs, sources>>,
                    id, has_url, auto)
     IN  /\ cameras' = m[1]
         /\ active_camera_id' = m[2]
         /\ camera_configs' = m[3]
         /\ sources' = m[4]
  /\ Returned("add", id, TRUE)
  /\ UNCHANGED sourceSide

\* the active camera once key id is deleted, cams being what is left
\* (camera_manager.py:161-165)
ActiveAfterRemove_kept(cams, active, id) == active
ActiveAfterRemove(cams, active, id) ==
  IF active # id THEN active
  ELSE IF cams # <<>> THEN Head(cams).id ELSE "none"
\* the configuration once id is removed (camera_manager.py:168-171)
ConfigAfterRemove_deleted(cfg, id) == [cfg EXCEPT ![id] = "absent"]
ConfigAfterRemove(cfg, id) ==
  IF cfg[id] # "absent" THEN [cfg EXCEPT ![id] = "disabled"] ELSE cfg

\* remove_camera(camera_id) (camera_manager.py:142-175)
RemoveCamera(id) ==
  /\ IF id \notin Keys(cameras)
     THEN /\ Returned("remove", id, FALSE)
          /\ UNCHANGED <<cameras, active_camera_id, camera_configs, sources>>
     ELSE /\ sources' = [sources EXCEPT ![SourceOf(cameras, id)] = SourceStop(@)]
          /\ cameras' = DictDel(cameras, id)
          /\ active_camera_id' = ActiveAfterRemove(cameras', active_camera_id, id)
          /\ camera_configs' = ConfigAfterRemove(camera_configs, id)
          /\ Returned("remove", id, TRUE)
  /\ UNCHANGED sourceSide

\* set_active_camera(camera_id) (camera_manager.py:187-202)
SetActiveCamera(id) ==
  /\ IF id \notin Keys(cameras)
     THEN /\ Returned("set_active", id, FALSE)
          /\ UNCHANGED active_camera_id
     ELSE /\ active_camera_id' = id
          /\ Returned("set_active", id, TRUE)
  /\ UNCHANGED <<cameras, camera_configs, sources, sourceSide>>

\* connect_camera(camera_id, url) (camera_manager.py:204-235): with a url the
\* source is given it first, then started
ConnectCamera(id, override) ==
  /\ IF id \notin Keys(cameras)
     THEN /\ Returned("connect", id, FALSE)
          /\ UNCHANGED sources
     ELSE LET s == SourceOf(cameras, id)
              r == IF override THEN SourceSetUrl(sources[s]) ELSE sources[s]
          IN  /\ sources' = [sources EXCEPT ![s] = SourceStart(r)]
              /\ Returned("connect", id, SourceStarts(r))
  /\ UNCHANGED <<cameras, active_camera_id, camera_configs, sourceSide>>

\* disconnect_camera(camera_id) (camera_manager.py:237-251)
DisconnectCamera(id) ==
  /\ IF id \notin Keys(cameras)
     THEN /\ Returned("disconnect", id, FALSE)
          /\ UNCHANGED sources
     ELSE /\ sources' = [sources EXCEPT ![SourceOf(cameras, id)] = SourceStop(@)]
          /\ Returned("disconnect", id, TRUE)
  /\ UNCHANGED <<cameras, active_camera_id, camera_configs, sourceSide>>

\* the configurations a manager is constructed with
Configs == [CameraIds -> {"absent", "enabled", "disabled"}]
MgrInit == \E cfg \in Configs : SourceInit(Quiet) /\ LoadCameraConfigs(cfg)

MgrNext ==
  \/ \E id \in CameraIds, has_url, auto \in BOOLEAN : AddCamera(id, has_url, auto)
  \/ \E id \in CameraIds : RemoveCamera(id)
  \/ \E id \in CameraIds : SetActiveCamera(id)
  \/ \E id \in CameraIds, override \in BOOLEAN : ConnectCamera(id, override)
  \/ \E id \in CameraIds : DisconnectCamera(id)

MgrSpec == MgrInit /\ [][MgrNext]_vars

\* C19: the active camera is None or a key of the cameras dict; removing the
\* active camera makes a remaining key active, or None when none remains;
\* set_active_camera with an id that is no key returns False and leaves the
\* active camera as it was.
C19_ActivePointer ==
  /\ [](active_camera_id = "none" \/ active_camera_id \in Keys(cameras))
  /\ [][\A id \in CameraIds :
          /\ (RemoveCamera(id) /\ id = active_camera_id) =>
               IF cameras' = <<>> THEN active_camera_id' = "none"
               ELSE active_camera_id' \in Keys(cameras')
          /\ (SetActiveCamera(id) /\ id \notin Keys(cameras)) =>
               /\ mgr_result'.val = FALSE
               /\ active_camera_id' = active_camera_id]_vars

\* C19 witness: remove_camera has removed the active camera "cam2" while
\* "cam3" remains, which is now the active one
C19_ActiveRemoved ==
  /\ mgr_result = [op |-> "remove", id |-> "cam2", val |-> TRUE]
  /\ Keys(cameras) = {"cam3"}
  /\ active_camera_id = "cam3"
  /\ camera_configs = [NoConfigs EXCEPT !["cam2"] = "disabled",
                                        !["cam3"] = "enabled"]
  /\ \A s \in SrcIds : s > 2 => sources[s] = NoSource

\* C20: remove_camera(id) for a key of the cameras dict stops that source,
\* deletes the key, leaves the configuration entry of id in place with
\* enabled false, and returns True; for an id that is no key it returns False
\* and changes neither the dict, nor the active camera, nor the configuration.
C20_RemoveCamera ==
  [][\A id \in CameraIds :
       RemoveCamera(id) =>
         IF id \in Keys(cameras)
         THEN /\ sources'[SourceOf(cameras, id)].state = "idle"
              /\ id \notin Keys(cameras')
              /\ Keys(cameras') = Keys(cameras) \ {id}
              /\ camera_configs'[id] = "disabled"
              /\ \A k \in CameraIds \ {id} :
                   camera_configs'[k] = camera_configs[k]
              /\ mgr_result'.val = TRUE
         ELSE /\ mgr_result'.val = FALSE
              /\ UNCHANGED <<cameras, active_camera_id, camera_configs,
                             sources>>]_vars

\* C20 witness: remove_camera has removed "main", the only camera: its
\* source is not running, its key is gone and its entry is disabled
C20_RunningRemoved ==
  /\ mgr_result = [op |-> "remove", id |-> "main", val |-> TRUE]
  /\ cameras = <<>>
  /\ camera_configs = [NoConfigs EXCEPT !["main"] = "disabled"]
  /\ sources[1] = [state |-> "idle", has_url |-> TRUE]
  /\ \A s \in SrcIds : s > 1 => sources[s] = NoSource

\* -------------------------------------------------- SyncManager methods
\* everything but the SyncManager's own fields
outsideSync == <<vsVars, thVars, gpc, gref, got, status, mgrVars, sideVars,
                 connection_listeners, noteVars, run>>
\* the fields of the SyncManager a loop thread never writes
syncSetup == <<sync_enabled, sync_thread, sync_stop_event, process_callbacks,
               spc, bt, senv>>
LoopGoes(l, r) == lp' = [lp EXCEPT ![l] = r]
LoopAt(l, where) == LoopGoes(l, [lp[l] EXCEPT !.pc = where])
\* the loop threads that have not ended
LiveLoops == {l \in Loops : lp[l].pc # "off"}
FreeLoops == Loops \ LiveLoops
FreshLoop == CHOOSE l \in FreeLoops : \A k \in FreeLoops : l <= k
\* self.sync_thread is not None and self.sync_thread.is_alive()
SyncThreadAlive == sync_thread # 0 /\ sync_thread \in LiveLoops

\* set_process_callback (sync_manager.py:56-63)
SetProcessCallback(c) ==
  /\ "callbacks" \in senv.ops
  /\ Len(process_callbacks) < senv.callbacks
  /\ process_callbacks' = Append(process_callbacks, c)
  /\ UNCHANGED <<sync_enabled, sync_processing, sync_interval, sync_thread,
                 sync_stop_event, frame_buffers, sync_clock, lp, dispatched,
                 spc, bt, sync_rounds, senv, outsideSync>>

\* list.remove(x): the first occurrence goes
RECURSIVE ListRemove(_, _)
ListRemove(list, x) ==
  IF list = <<>> THEN <<>>
  ELSE IF Head(list) = x THEN Tail(list)
  ELSE <<Head(list)>> \o ListRemove(Tail(list), x)
\* remove_process_callback (sync_manager.py:65-68)
RemoveProcessCallback(c) ==
  /\ "callbacks" \in senv.ops
  /\ \E i \in DOMAIN process_callbacks : process_callbacks[i] = c
  /\ process_callbacks' = ListRemove(process_callbacks, c)
  /\ UNCHANGED <<sync_enabled, sync_processing, sync_interval, sync_thread,
                 sync_stop_event, frame_buffers, sync_clock, lp, dispatched,
                 spc, bt, sync_rounds, senv, outsideSync>>

\* enable_sync(True) with start_sync_thread (sync_manager.py:44-50, 70-78)
EnableSync ==
  /\ "enable" \in senv.ops
  /\ spc = "idle"
  /\ ~sync_enabled
  /\ sync_enabled' = TRUE
  /\ IF SyncThreadAlive
     THEN UNCHANGED <<sync_stop_event, sync_thread, lp, dispatched>>
     ELSE /\ FreeLoops # {}
          /\ sync_stop_event' = FALSE
          /\ sync_thread' = FreshLoop
          /\ LoopGoes(FreshLoop, [NoLoop EXCEPT !.pc = "top"])
          /\ dispatched' = [dispatched EXCEPT ![FreshLoop] = <<>>]
  /\ UNCHANGED <<sync_processing, sync_interval, process_callbacks,
                 frame_buffers, sync_clock, spc, bt, sync_rounds, senv,
                 outsideSync>>

\* enable_sync(False) with stop_sync_thread up to the join
\* (sync_manager.py:44-52, 80-86)
DisableSync ==
  /\ "disable" \in senv.ops
  /\ spc = "idle"
  /\ sync_enabled
  /\ sync_enabled' = FALSE
  /\ IF SyncThreadAlive
     THEN sync_stop_event' = TRUE /\ spc' = "join"
     ELSE UNCHANGED <<sync_stop_event, spc>>
  /\ UNCHANGED <<sync_processing, sync_interval, sync_thread,
                 process_callbacks, frame_buffers, sync_clock, lp, dispatched,
                 bt, sync_rounds, senv, outsideSync>>

\* join(timeout=3) returns as the loop thread has ended (sync_manager.py:86-87)
SyncJoinDone ==
  /\ spc = "join"
  /\ sync_thread \notin LiveLoops
  /\ sync_thread' = 0
  /\ spc' = "idle"
  /\ UNCHANGED <<sync_enabled, sync_processing, sync_interval,
                 sync_stop_event, process_callbacks, frame_buffers, sync_clock,
                 lp, dispatched, bt, sync_rounds, senv, outsideSync>>

\* join(timeout=3) gives up while the loop thread is inside a callback that
\* takes longer (sync_manager.py:86-87)
SyncJoinTimeout ==
  /\ spc = "join"
  /\ senv.slow
  /\ sync_thread \in LiveLoops
  /\ lp[sync_thread].pc = "proc_call"
  /\ sync_thread' = 0
  /\ spc' = "idle"
  /\ UNCHANGED <<sync_enabled, sync_processing, sync_interval,
                 sync_stop_event, process_callbacks, frame_buffers, sync_clock,
                 lp, dispatched, bt, sync_rounds, senv, outsideSync>>

\* ------------------------------------------------------------ _sync_loop
\* while not self.stop_event.is_set() (sync_manager.py:94-99): the loop ends,
\* or an iteration begins with the iteration over cameras.items()
LoopTop(l) ==
  /\ lp[l].pc = "top"
  /\ IF sync_stop_event
     THEN LoopGoes(l, NoLoop)
     ELSE LoopGoes(l, [NoLoop EXCEPT !.pc = "cap_next", !.it = NewIter(cameras)])
  /\ UNCHANGED <<sync_processing, sync_interval, frame_buffers, sync_clock,
                 dispatched, sync_rounds, syncSetup, outsideSync>>

\* what camera.connection_ok may read for the source s: a source that is
\* not running is not connected
OkValues(s) == IF sources[s].state = "running" THEN senv.oks ELSE {FALSE}

\* one turn of the loop of _capture_all_frames up to the time stamp
\* (sync_manager.py:127-133): a connected camera gives a frame, the
\* placeholder included
CaptureNext(l) ==
  /\ lp[l].pc = "cap_next"
  /\ IF IterFails(lp[l].it, cameras)
     THEN /\ LoopAt(l, "error")
          /\ UNCHANGED sync_clock
     ELSE IF IterDone(lp[l].it, cameras)
     THEN /\ LoopGoes(l, [lp[l] EXCEPT !.pc = "proc_check", !.it = NoIter])
          /\ UNCHANGED sync_clock
     ELSE LET item == IterItem(lp[l].it, cameras)
              past == IterPast(lp[l].it, item.id)
          IN  \E ok \in OkValues(item.src) :
                IF ok
                THEN /\ sync_clock < senv.captures
                     /\ sync_clock' = sync_clock + 1
                     /\ LoopGoes(l, [lp[l] EXCEPT !.pc = "cap_append",
                                                  !.it = past,
                                                  !.cam = item.id,
                                                  !.stamp = sync_clock'])
                ELSE /\ LoopGoes(l, [lp[l] EXCEPT !.it = past])
                     /\ UNCHANGED sync_clock
  /\ UNCHANGED <<sync_processing, sync_interval, frame_buffers, dispatched,
                 sync_rounds, syncSetup, outsideSync>>

\* the buffer under a key of frame_buffers
BufKeys(dict) == {dict[i].id : i \in DOMAIN dict}
BufAt(dict, id) == CHOOSE i \in DOMAIN dict : dict[i].id = id
BufOf(dict, id) == dict[BufAt(dict, id)].buf
\* buffer.append(entry), then buffer.pop(0) above max_buffer_size
\* (sync_manager.py:140-144)
Trimmed(buf) == IF Len(buf) > MaxBufferEntries THEN Tail(buf) ELSE buf
\* the rest of the turn (sync_manager.py:136-144)
CaptureAppend(l) ==
  /\ lp[l].pc = "cap_append"
  /\ LET id == lp[l].cam
         dict == IF id \in BufKeys(frame_buffers) THEN frame_buffers
                 ELSE Append(frame_buffers, [id |-> id, buf |-> <<>>])
         i == BufAt(dict, id)
     IN  frame_buffers' =
           [dict EXCEPT ![i].buf = Trimmed(Append(@, lp[l].stamp))]
  /\ LoopGoes(l, [lp[l] EXCEPT !.pc = "cap_next", !.cam = "none", !.stamp = 0])
  /\ UNCHANGED <<sync_processing, sync_interval, sync_clock, dispatched,
                 sync_rounds, syncSetup, outsideSync>>

\* _process_frames up to its loops (sync_manager.py:148-155)
ProcessCheck(l) ==
  /\ lp[l].pc = "proc_check"
  /\ dispatched' = [dispatched EXCEPT ![l] = <<>>]
  /\ IF frame_buffers = <<>> \/ process_callbacks = <<>>
     THEN /\ LoopGoes(l, [lp[l] EXCEPT !.pc = "adj_next",
                                       !.it = NewIter(cameras)])
          /\ UNCHANGED sync_processing
     ELSE /\ sync_processing' = TRUE
          /\ LoopGoes(l, [lp[l] EXCEPT !.pc = "proc_cb", !.cbi = 1])
  /\ UNCHANGED <<sync_interval, frame_buffers, sync_clock, sync_rounds,
                 syncSetup, outsideSync>>

\* one turn of the loop over the callbacks (sync_manager.py:155-156, 166,
\* 107-113): the list is read by position
ProcessCallback(l) ==
  /\ lp[l].pc = "proc_cb"
  /\ IF lp[l].cbi > Len(process_callbacks)
     THEN /\ sync_processing' = FALSE
          /\ LoopGoes(l, [lp[l] EXCEPT !.pc = "adj_next", !.cbi = 0,
                                       !.it = NewIter(cameras)])
     ELSE /\ LoopGoes(l, [lp[l] EXCEPT !.pc = "proc_buf",
                                       !.cb = process_callbacks[lp[l].cbi],
                                       !.it = NewIter(frame_buffers)])
          /\ UNCHANGED sync_processing
  /\ UNCHANGED <<sync_interval, frame_buffers, sync_clock, dispatched,
                 sync_rounds, syncSetup, outsideSync>>

\* one turn of the loop over frame_buffers.items() up to the call
\* (sync_manager.py:156-161): the newest frame is taken
ProcessBuffer(l) ==
  /\ lp[l].pc = "proc_buf"
  /\ IF IterFails(lp[l].it, frame_buffers)
     THEN LoopAt(l, "error")
     ELSE IF IterDone(lp[l].it, frame_buffers)
     THEN LoopGoes(l, [lp[l] EXCEPT !.pc = "proc_cb", !.cbi = @ + 1,
                                    !.cb = 0, !.it = NoIter])
     ELSE LET item == IterItem(lp[l].it, frame_buffers)
              past == IterPast(lp[l].it, item.id)
          IN  IF item.buf = <<>>
              THEN LoopGoes(l, [lp[l] EXCEPT !.it = past])
              ELSE LoopGoes(l, [lp[l] EXCEPT !.pc = "proc_call", !.it = past,
                                             !.cam = item.id,
                                             !.stamp = item.buf[Len(item.buf)]])
  /\ UNCHANGED <<sync_processing, sync_interval, frame_buffers, sync_clock,
                 dispatched, sync_rounds, syncSetup, outsideSync>>

\* where the loop goes on after the call: what the callback raises is
\* caught inside the loop over the buffers (sync_manager.py:160-163)
AfterCall_uncaught(raised) == IF raised THEN "error" ELSE "proc_buf"
AfterCall(raised) == "proc_buf"
\* callback(camera_id, frame) returns or raises (sync_manager.py:160-163)
ProcessCall(l) ==
  /\ lp[l].pc = "proc_call"
  /\ \E raised \in {FALSE, senv.raises} :
       /\ dispatched' =
            [dispatched EXCEPT ![l] =
               Append(@, [cb |-> lp[l].cb, id |-> lp[l].cam,
                          frame |-> lp[l].stamp, raised |-> raised])]
       /\ LoopGoes(l, [lp[l] EXCEPT !.pc = AfterCall(raised), !.cam = "none",
                                    !.stamp = 0])
  /\ UNCHANGED <<sync_processing, sync_interval, frame_buffers, sync_clock,
                 sync_rounds, syncSetup, outsideSync>>

\* max(1/60, min(1/5, x)) for the rational x (sync_manager.py:189)
ClampInterval_none(x) == x
ClampInterval(x) ==
  IF 60 * x[1] < x[2] THEN Frac(1, 60)
  ELSE IF 5 * x[1] > x[2] THEN Frac(1, 5)
  ELSE x
\* 0.8 * interval + 0.2 * (1 / min_fps) (sync_manager.py:182-186)
Damped(x, f) == Frac(4 * x[1] * f + x[2], 5 * x[2] * f)
\* the smaller of two rates, 0 standing for none yet
MinFps(a, b) == IF a = 0 THEN b ELSE IF b = 0 THEN a ELSE Min(a, b)

\* _adjust_sync_interval (sync_manager.py:168-189), one turn of its loop over
\* cameras.items() or, that loop over, the new interval; then the sleep
\* (sync_manager.py:116-118)
AdjustNext(l) ==
  /\ lp[l].pc = "adj_next"
  /\ IF IterFails(lp[l].it, cameras)
     THEN /\ LoopAt(l, "error")
          /\ UNCHANGED <<sync_interval, sync_rounds>>
     ELSE IF IterDone(lp[l].it, cameras)
     THEN /\ LoopGoes(l, [NoLoop EXCEPT !.pc = "top"])
          /\ IF lp[l].min_fps = 0
             THEN UNCHANGED <<sync_interval, sync_rounds>>
             ELSE /\ sync_rounds < senv.rounds
                  /\ sync_rounds' = sync_rounds + 1
                  /\ sync_interval' =
                       ClampInterval(Damped(sync_interval, lp[l].min_fps))
     ELSE LET item == IterItem(lp[l].it, cameras)
              past == IterPast(lp[l].it, item.id)
          IN  /\ \E ok \in OkValues(item.src), f \in senv.fps :
                   LoopGoes(l, [lp[l] EXCEPT
                                  !.it = past,
                                  !.min_fps = IF ok /\ f > 0
                                              THEN MinFps(@, f) ELSE @])
              /\ UNCHANGED <<sync_interval, sync_rounds>>
  /\ UNCHANGED <<sync_processing, frame_buffers, sync_clock, dispatched,
                 syncSetup, outsideSync>>

\* the except clause of the loop (sync_manager.py:120-122)
LoopError(l) ==
  /\ lp[l].pc = "error"
  /\ LoopGoes(l, [NoLoop EXCEPT !.pc = "top"])
  /\ UNCHANGED <<sync_processing, sync_interval, frame_buffers, sync_clock,
                 dispatched, sync_rounds, syncSetup, outsideSync>>

\* ------------------------------------------ connect_all, disconnect_all
\* the call begins its iteration over self.cameras
\* (camera_manager.py:253-261)
BatchBegin(op) ==
  /\ "batch" \in senv.ops
  /\ bt.pc = "idle"
  /\ bt' = [pc |-> "iter", op |-> op, it |-> NewIter(cameras), left |-> 0]
  /\ UNCHANGED <<sync_enabled, sync_processing, sync_interval, sync_thread,
                 sync_stop_event, process_callbacks, frame_buffers, sync_clock,
                 lp, dispatched, spc, sync_rounds, senv, outsideSync>>

\* one turn of that iteration: the next source is started or stopped, the
\* call returns, or next() raises RuntimeError out of the call, the cameras
\* not reached being left as they were
BatchNext ==
  /\ bt.pc = "iter"
  /\ IF IterFails(bt.it, cameras)
     THEN /\ bt' = [bt EXCEPT !.pc = "raised",
                              !.left = Cardinality(IterLeft(bt.it, cameras))]
          /\ UNCHANGED sources
     ELSE IF IterDone(bt.it, cameras)
     THEN /\ bt' = NoBatch
          /\ UNCHANGED sources
     ELSE LET item == IterItem(bt.it, cameras) IN
          /\ bt' = [bt EXCEPT !.it = IterPast(bt.it, item.id)]
          /\ sources' = [sources EXCEPT ![item.src] =
                           IF bt.op = "connect_all" THEN SourceStart(@)
                           ELSE SourceStop(@)]
  /\ UNCHANGED <<sync_enabled, sync_processing, sync_interval, sync_thread,
                 sync_stop_event, process_callbacks, frame_buffers, sync_clock,
                 lp, dispatched, spc, sync_rounds, senv, cameras,
                 active_camera_id, camera_configs, mgr_result, vsVars, thVars,
                 gpc, gref, got, status, sideVars, connection_listeners,
                 noteVars, run>>

\* --------------------------------------------- the SyncManager at work
\* the surroundings of a SyncManager: the cameras configured and connected at
\* the start, the calls made, what connection_ok and fps may read, whether a
\* callback may raise or outlast the join, how many captures and adjustments
\* are followed
Dispatching == [SyncOff EXCEPT !.cams = {"main", "cam2"},
                               !.ops = {"enable", "callbacks"},
                               !.oks = BOOLEAN, !.raises = TRUE,
                               !.captures = 3, !.callbacks = MaxCallbacks]
LongRun == [SyncOff EXCEPT !.cams = {"main"}, !.ops = {"enable"},
                           !.oks = {TRUE}, !.captures = MaxCaptures]
Mutating == [SyncOff EXCEPT !.cams = {"main", "cam2"},
                            !.ops = {"enable", "add", "remove"}]
Batching == [SyncOff EXCEPT !.cams = {"main", "cam2"},
                            !.ops = {"add", "remove", "batch"}]
Toggling == [SyncOff EXCEPT !.cams = {"main"},
                            !.ops = {"enable", "disable", "callbacks"},
                            !.oks = {TRUE}, !.slow = TRUE, !.captures = 3,
                            !.callbacks = 1]
Adapting == [SyncOff EXCEPT !.cams = {"main", "cam2"}, !.ops = {"enable"},
                            !.oks = BOOLEAN, !.fps = {0, 1, 10, 30, 600},
                            !.rounds = MaxRounds]
SyncEnvs == {Dispatching, LongRun, Mutating, Batching, Toggling, Adapting}

\* the manager m after connect_all (camera_manager.py:258-261)
ConnectedAll(m) ==
  << m[1], m[2], m[3],
     [s \in SrcIds |-> IF \E i \in DOMAIN m[1] : m[1][i].src = s
                       THEN SourceStart(m[4][s]) ELSE m[4][s]] >>
\* a manager built from a configuration of the cameras ids, all connected,
\* and its SyncManager
SyncInit ==
  \E e \in SyncEnvs :
    /\ SourceInit(Quiet)
    /\ ManagerIs(ConnectedAll(LoadedManager(
         [id \in CameraIds |-> IF id \in e.cams THEN "enabled" ELSE "absent"])))
    /\ SyncManagerInit(e)

SyncNext ==
  \/ \E c \in ProcessCallbacks : SetProcessCallback(c)
  \/ \E c \in ProcessCallbacks : RemoveProcessCallback(c)
  \/ EnableSync
  \/ DisableSync
  \/ SyncJoinDone
  \/ SyncJoinTimeout
  \/ \E l \in Loops : LoopTop(l)
  \/ \E l \in Loops : CaptureNext(l)
  \/ \E l \in Loops : CaptureAppend(l)
  \/ \E l \in Loops : ProcessCheck(l)
  \/ \E l \in Loops : ProcessCallback(l)
  \/ \E l \in Loops : ProcessBuffer(l)
  \/ \E l \in Loops : ProcessCall(l)
  \/ \E l \in Loops : AdjustNext(l)
  \/ \E l \in Loops : LoopError(l)
  \/ \E op \in {"connect_all", "disconnect_all"} : BatchBegin(op)
  \/ BatchNext
  \/ "add" \in senv.ops /\ \E id \in CameraIds : AddCamera(id, TRUE, TRUE)
  \/ "remove" \in senv.ops /\ \E id \in CameraIds : RemoveCamera(id)

SyncSpec == SyncInit /\ [][SyncNext]_vars

\* ------------------------------------------------ SyncManager claims
\* the callback call of loop l ends, having raised
CallRaises(l) ==
  /\ lp[l].pc = "proc_call"
  /\ Len(dispatched'[l]) = Len(dispatched[l]) + 1
  /\ dispatched'[l][Len(dispatched'[l])].raised

\* C21: an exception a processing callback raises for one source is caught:
\* the loop thread stays in the same pass of _process_frames, at the same
\* callback and the same place among the sources, so the remaining sources
\* and the remaining callbacks are still called, and the loop goes on.
C21_CallbackErrorContained ==
  [][\A l \in Loops :
       CallRaises(l) =>
         /\ lp'[l].pc = "proc_buf"
         /\ lp'[l].it = lp[l].it
         /\ lp'[l].cbi = lp[l].cbi
         /\ lp'[l].cb = lp[l].cb
         /\ sync_processing' = sync_processing]_vars

\* C21 witness: in one pass the first call raised, after it the same callback
\* was called for another source and another callback was called too
C21_RaisedThenOthers ==
  \E l \in Loops :
    /\ Len(dispatched[l]) >= 3
    /\ dispatched[l][1].raised
    /\ dispatched[l][2].cb = dispatched[l][1].cb
    /\ dispatched[l][2].id # dispatched[l][1].id
    /\ dispatched[l][3].cb # dispatched[l][1].cb

\* loop l ends _adjust_sync_interval
Adjusts(l) == lp[l].pc = "adj_next" /\ lp'[l].pc = "top"
\* the rational x is within [1/60, 1/5]
InClamp(x) == 60 * x[1] >= x[2] /\ 5 * x[1] <= x[2]
\* clamp(0.8 * old + 0.2 * (1 / m)) for the interval old and the rate m
ExpectedInterval(old, m) ==
  LET u == Frac(4 * old[1] * m + old[2], 5 * old[2] * m)
  IN  IF 60 * u[1] < u[2] THEN <<1, 60>>
      ELSE IF 5 * u[1] > u[2] THEN <<1, 5>>
      ELSE u

\* C22: the interval is within [1/60, 1/5] whatever rates the connected
\* cameras report; an adjustment sets it to
\* clamp(0.8 * old + 0.2 * (1 / min_fps)), min_fps being the least rate above
\* 0 of a connected camera, and leaves it as it is when there is none.
C22_IntervalClamped ==
  /\ [](InClamp(sync_interval))
  /\ [][\A l \in Loops :
          Adjusts(l) =>
            IF lp[l].min_fps = 0
            THEN sync_interval' = sync_interval
            ELSE sync_interval' = ExpectedInterval(sync_interval,
                                                   lp[l].min_fps)]_vars

\* C22 witness: adjustments at a rate far above 60 have brought the interval
\* down to 1/60
C22_ClampedBelow == sync_rounds >= 1 /\ sync_interval = <<1, 60>>

\* the captures of a buffer are in the order they were taken
InCaptureOrder(buf) == \A i, j \in DOMAIN buf : i < j => buf[i] < buf[j]
\* loop l reads connection_ok as true and takes a frame
Captures(l) == lp[l].pc = "cap_next" /\ lp'[l].pc = "cap_append"
\* loop l puts the frame it took into the buffer of its camera
Appends(l) == lp[l].pc = "cap_append" /\ lp'[l].pc = "cap_next"
\* the buffer of camera id, empty when there is none
BufferOf(dict, id) == IF id \in BufKeys(dict) THEN BufOf(dict, id) ELSE <<>>

\* C24: a camera's cached history never holds more than 30 entries, and they
\* are in capture order; an entry appended to a history of 30 takes the place
\* of the oldest; a history changes only as a loop appends the frame of a
\* camera whose connection_ok it has read as true.
C24_HistoryCapped ==
  /\ [](\A i \in DOMAIN frame_buffers :
          /\ Len(frame_buffers[i].buf) <= 30
          /\ InCaptureOrder(frame_buffers[i].buf))
  /\ [][/\ \A l \in Loops :
             /\ Captures(l) =>
                  \E i \in DOMAIN cameras :
                    /\ cameras[i].id = lp'[l].cam
                    /\ sources[cameras[i].src].state = "running"
             /\ Appends(l) =>
                  LET old == BufferOf(frame_buffers, lp[l].cam)
                      new == BufferOf(frame_buffers', lp[l].cam)
                  IN  IF Len(old) = 30
                      THEN new = Append(Tail(old), lp[l].stamp)
                      ELSE new = Append(old, lp[l].stamp)
        /\ frame_buffers' # frame_buffers => \E l \in Loops : Appends(l)]_vars

\* ------------------------------------------- get_recommended_transport
\* A source on which get_recommended_transport is called: of either
\* transport, local or live, with or without a decode worker alive (thread
\* 1, about to open the source again), on a camera that answers on some of
\* the transports.
ProbeInit ==
  \E tr \in Transports, local, alive \in BOOLEAN, f \in {0, 2},
     works \in SUBSET Transports :
    /\ env = Quiet
    /\ source_url = IF local THEN "video.mp4" ELSE "rtsp://cam"
    /\ is_local_file = local
    /\ rtsp_transport = tr
    /\ initial_buffer_size = 1
    /\ buffer_size = 1
    /\ connection_failures = f
    /\ frame_drop_rate = <<0, 0>>
    /\ received_frames_count = 0
    /\ dropped_frames_count = 0
    /\ connection_ok = FALSE
    /\ is_running = alive
    /\ connection_attempts = 0
    /\ connection_callback = "none"
    /\ fps = 30
    /\ queues = [q \in QIds |-> NewQueue(IF q = 1 THEN 1 ELSE 0)]
    /\ frame_queue = 1
    /\ stop_event = FALSE
    /\ thread = IF alive THEN 1 ELSE 0
    /\ dummy_frame = "placeholder"
    /\ pc = [t \in Threads |-> IF t = 1 /\ alive THEN "w_open"
                               ELSE IF t \in Workers THEN "dead" ELSE "idle"]
    /\ ctx = [t \in Threads |-> "none"]
    /\ joinee = [t \in Threads |-> 0]
    /\ result = [t \in Callers |-> "none"]
    /\ wl = [w \in Workers |-> NoLocals]
    /\ next_frame = 1
    /\ stopped = FALSE
    /\ gpc = "idle"
    /\ gref = 0
    /\ got = NoFrame
    /\ status = NoStatus
    /\ probe = NoProbe
    /\ penv = [works |-> works]
    /\ conns = NoConns
    /\ connection_listeners = {}
    /\ listener_calls = [l \in Listeners |-> 0]
    /\ owed = [l \in Listeners |-> FALSE]
    /\ notified = <<>>
    /\ run = FreshRun(0, 1)
    /\ LoadCameraConfigs(NoConfigs)

\* everything a probe step leaves alone but the transport
besideProbe == <<cfgVars, bufVars, cntVars, runVars, is_local_file,
                 connection_failures, connection_attempts, connection_ok,
                 thVars, gpc, gref, got, status, mgrVars, syncVars, penv,
                 conns,
                 connection_listeners, noteVars, run>>

\* video_source.py:485-492: a local file is answered at once; else the
\* transport is saved and set to tcp
ProbeBegin ==
  /\ probe.pc = "idle"
  /\ IF is_local_file
     THEN /\ probe' = [NoProbe EXCEPT !.pc = "returned", !.ret = "tcp"]
          /\ UNCHANGED rtsp_transport
     ELSE /\ probe' = [NoProbe EXCEPT !.pc = "test_tcp",
                                      !.original_transport = rtsp_transport]
          /\ rtsp_transport' = "tcp"
  /\ UNCHANGED besideProbe

\* test_connection (video_source.py:449-476): the source is opened with the
\* transport the field holds at line 460, and a frame is decoded or not
TestConnection ==
  /\ probe.pc \in {"test_tcp", "test_udp"}
  /\ LET success == rtsp_transport \in penv.works
         opened == Append(probe.opened, rtsp_transport)
     IN  probe' = IF probe.pc = "test_tcp"
                  THEN [probe EXCEPT !.pc = "set_udp", !.opened = opened,
                                     !.tcp_success = success]
                  ELSE [probe EXCEPT !.pc = "restore", !.opened = opened,
                                     !.udp_success = success]
  /\ UNCHANGED <<rtsp_transport, besideProbe>>

\* video_source.py:496
ProbeSetUdp ==
  /\ probe.pc = "set_udp"
  /\ rtsp_transport' = "udp"
  /\ probe' = [probe EXCEPT !.pc = "test_udp"]
  /\ UNCHANGED besideProbe

\* video_source.py:502-512
Recommended(tcp_success, udp_success) ==
  IF tcp_success /\ ~udp_success THEN "tcp"
  ELSE IF udp_success /\ ~tcp_success THEN "udp"
  ELSE IF tcp_success /\ udp_success THEN "udp"
  ELSE "tcp"

\* video_source.py:499-512: the saved transport is put back and the
\* recommendation returned
ProbeReturn ==
  /\ probe.pc = "restore"
  /\ rtsp_transport' = probe.original_transport
  /\ probe' = [probe EXCEPT !.pc = "returned",
                            !.ret = Recommended(probe.tcp_success,
                                                probe.udp_success)]
  /\ UNCHANGED besideProbe

\* the live worker fails to open or decode (video_source.py:403-413): the
\* failure is counted and, from the third on, switch_transport_protocol
\* toggles the transport (video_source.py:280-286)
WFailure(w) ==
  /\ pc[w] = "w_open"
  /\ connection_failures < MaxFailures
  /\ connection_failures' = connection_failures + 1
  /\ rtsp_transport' =
       IF ~is_local_file /\ ShouldSwitchTransport(connection_failures')
       THEN Toggle(rtsp_transport) ELSE rtsp_transport
  /\ UNCHANGED <<cfgVars, bufVars, cntVars, runVars, is_local_file,
                 connection_attempts, connection_ok, thVars, conVars,
                 connection_listeners, noteVars, run>>

ProbeNext ==
  \/ ProbeBegin
  \/ TestConnection
  \/ ProbeSetUdp
  \/ ProbeReturn
  \/ \E w \in Workers : WFailure(w)

ProbeSpec == ProbeInit /\ [][ProbeNext]_vars

\* C25: on a live source get_recommended_transport returns tcp when only
\* the tcp probe succeeds, udp when only the udp probe succeeds, udp when
\* both succeed and tcp when neither does; the first probe runs under tcp and
\* the second under udp; and the transport of the source after the call is
\* the one it had before the call.
C25_RecommendedTransport ==
  [][(ProbeReturn /\ ~is_local_file) =>
       /\ probe'.opened = <<"tcp", "udp">>
       /\ probe'.ret = Recommended("tcp" \in penv.works, "udp" \in penv.works)
       /\ rtsp_transport' = probe.original_transport]_vars

\* ------------------------------------------------ sources side by side
\* Every VideoSource keeps its fields in its own instance: an assignment
\* through self in a method of source i writes the fields of source i
\* (video_source.py:35-73 makes them instance attributes).
Writes_shared(i, r) == [j \in ConnIds |-> r]
Writes(i, r) == [conns EXCEPT ![i] = r]
besideConns == <<vsVars, thVars, gpc, gref, got, status, mgrVars, syncVars,
                 probeVars, connection_listeners, noteVars, run>>
ConnStep(i, r) == conns' = Writes(i, r) /\ UNCHANGED besideConns

\* start() of source i (video_source.py:104-120)
ConnStart(i) ==
  /\ ~conns[i].is_running
  /\ ConnStep(i, [conns[i] EXCEPT !.is_running = TRUE, !.stop_event = FALSE,
                                  !.pc = "top", !.backoff_delay = 1])

\* the worker of source i opens it (video_source.py:308-334)
ConnOpenOk(i) ==
  /\ conns[i].pc = "top"
  /\ ~conns[i].stop_event
  /\ ConnStep(i, [conns[i] EXCEPT !.connection_ok = TRUE,
                                  !.connection_failures = 0,
                                  !.backoff_delay = 1, !.pc = "decode"])

\* it decodes a frame and pushes it, dropping the oldest when the buffer is
\* full (video_source.py:339-377)
ConnPush(i) ==
  /\ conns[i].pc = "decode"
  /\ conns[i].decoded < MaxDecoded
  /\ LET c == conns[i]
         f == c.decoded + 1
         room == IF Len(c.buffer) >= c.buffer_size THEN Tail(c.buffer)
                 ELSE c.buffer
     IN  ConnStep(i, [c EXCEPT !.decoded = f, !.buffer = Append(room, f)])

\* _update_buffer_size (video_source.py:169-231) after a period of many or of
\* no drops: the capacity grows or shrinks and the buffer is rebuilt
ConnResize(i, grow) ==
  /\ conns[i].pc = "decode"
  /\ LET c == conns[i]
         new == IF grow THEN GrownSize(c.buffer_size)
                ELSE ShrunkSize(c.buffer_size, c.initial_buffer_size)
     IN  /\ new # c.buffer_size
         /\ new <= MaxConnBuffer
         /\ ConnStep(i, [c EXCEPT !.buffer_size = new,
                                  !.buffer = IF grow THEN SubSeq(@, 1, Min(Len(@), new))
                                             ELSE LastN(@, new)])

\* open or decode raises (video_source.py:403-413): the failure is counted
\* and, from the third on, the transport is switched
ConnFails(i) ==
  /\ conns[i].pc \in {"top", "decode"}
  /\ ~conns[i].stop_event
  /\ conns[i].connection_failures < MaxFailures
  /\ LET c == conns[i]
         f == c.connection_failures + 1
     IN  ConnStep(i, [c EXCEPT !.connection_ok = FALSE,
                               !.connection_failures = f,
                               !.pc = IF f >= FailureSwitchThreshold
                                      THEN "switch" ELSE "retry"])

\* the reconnection logic (video_source.py:416-426)
ConnBackoff(i) ==
  /\ conns[i].pc = "retry"
  /\ ConnStep(i, [conns[i] EXCEPT !.backoff_delay = NextBackoff(@),
                                  !.pc = "top"])

\* switch_transport_protocol called by the worker (video_source.py:276-294,
\* 121-128): the transport is toggled, stop() sets the stop event and joins
\* the calling thread, which raises and ends the worker
ConnSwitch(i) ==
  /\ conns[i].pc = "switch"
  /\ ConnStep(i, [conns[i] EXCEPT !.rtsp_transport = Toggle(@),
                                  !.stop_event = TRUE, !.pc = "dead"])

\* stop() of source i from outside once its worker has ended
\* (video_source.py:121-139)
ConnStop(i) ==
  /\ conns[i].is_running
  /\ conns[i].pc = "dead"
  /\ ConnStep(i, [conns[i] EXCEPT !.is_running = FALSE, !.stop_event = TRUE,
                                  !.connection_ok = FALSE, !.buffer = <<>>])

\* a step of the decode worker of source i
ConnWorkerStep(i) ==
  \/ ConnOpenOk(i)
  \/ ConnPush(i)
  \/ \E grow \in BOOLEAN : ConnResize(i, grow)
  \/ ConnFails(i)
  \/ ConnBackoff(i)
  \/ ConnSwitch(i)

ConnsNext ==
  \/ \E i \in ConnIds : ConnStart(i)
  \/ \E i \in ConnIds : ConnStop(i)
  \/ \E i \in ConnIds : ConnWorkerStep(i)

ConnsSpec == InitIn(Quiet) /\ [][ConnsNext]_vars

C27_RegistryIterationSafe ==
  /\ \A l \in Loops : lp[l].pc # "error"
  /\ bt.pc # "raised"

\* ---------------------------------------------------------- scheduling
\* Every thread that can take a step of the method it is in takes one in the
\* end: a worker in _read_frames and in what it calls, a caller inside a call
\* it has made (a caller need not make another call).
\* a camera that hangs and then delivers into a capacity of one
SlowShort ==
  [SlowFrames EXCEPT !.buffer_size = 1, !.frames = 3, !.ticks = {"none"}]
\* the surroundings the scheduling is checked in
LiveEnvs == {EmptyLocator, LocalFile, Faulty, SlowFaulty, DoubleStart,
             SmallBuffer, Resizing, SlowShort}
LiveInit == \E e \in LiveEnvs : InitIn(e)
Fairness ==
  /\ \A w \in Workers : WF_vars(WorkerStep(w) \/ MethodStep(w))
  /\ \A t \in Callers : WF_vars(pc[t] # "idle" /\ MethodStep(t))
LiveSpec == LiveInit /\ [][Next]_vars /\ Fairness

\* worker w waits in container.decode for a frame the camera does not send
InDecode(w) ==
  /\ pc[w] = "w_decode"
  /\ next_frame > env.frames
  /\ ~env.ends
  /\ ~env.faults

\* worker w has reached the number of attempts or of failures that runs are
\* followed to
CutOff(w) ==
  \/ pc[w] = "w_init" /\ connection_attempts >= env.attempts
  \/ pc[w] = "w_except" /\ connection_failures >= MaxFailures
  \/ pc[w] = "start_launch" /\ FreeWorkers = {}
\* worker w is held by the camera or by the end of the run, itself or, in
\* the join of a stop() it called, through the worker it joins
Held(w) ==
  \/ InDecode(w) \/ CutOff(w)
  \/ /\ pc[w] = "stop_join"
     /\ joinee[w] \in Workers
     /\ InDecode(joinee[w]) \/ CutOff(joinee[w])

\* C28: once the stop event is set and stays set, a worker that does not wait
\* inside container.decode ends, from wherever it is in its loop, and it does
\* not go on to another av.open.
C28_CancellationLive ==
  /\ \A w \in Workers :
       [](stop_event /\ pc[w] # "dead" =>
            <>(pc[w] = "dead" \/ ~stop_event \/ Held(w)))
  /\ [][\A w \in Workers :
          stop_event /\ pc[w] # "w_open" => pc'[w] # "w_open"]_vars

\* loop thread l leaves _process_frames after its loop over the callbacks
\* (sync_manager.py:155-166)
ProcessingEnds(l) == lp[l].pc = "proc_cb" /\ lp'[l].pc = "adj_next"
\* the calls of callback c for camera id among the calls of one iteration
CallsOf(calls, c, id) ==
  {k \in DOMAIN calls : calls[k].cb = c /\ calls[k].id = id}

\* C29: in an iteration with a registered callback, every registered callback
\* is called exactly once for every camera id that has a cached frame, with
\* the newest frame cached for it; and a cache entry, once made, is never
\* removed, whatever becomes of the camera.
C29_DispatchedOncePerSource ==
  /\ [][\A l \in Loops :
          ProcessingEnds(l) =>
            \A n \in DOMAIN process_callbacks, i \in DOMAIN frame_buffers :
              frame_buffers[i].buf # <<>> =>
                LET calls == CallsOf(dispatched[l], process_callbacks[n],
                                     frame_buffers[i].id)
                IN  /\ Cardinality(calls) = 1
                    /\ \A k \in calls :
                         dispatched[l][k].frame =
                           frame_buffers[i].buf[Len(frame_buffers[i].buf)]]_vars
  /\ [][\A i \in DOMAIN frame_buffers :
          /\ i \in DOMAIN frame_buffers'
          /\ frame_buffers'[i].id = frame_buffers[i].id
          /\ frame_buffers[i].buf # <<>> => frame_buffers'[i].buf # <<>>]_vars

\* ------------------------------------------------------ buffer rebuild
\* the baseline capacities a source is rebuilt from (the dialogs allow 5 to
\* 100), and how full its buffer is: empty, one frame, or full
RebuildBaselines == {2, 30, 65}
Fills(c) == {0, 1, c}
\* the frames 1..n in the order they were decoded
Decoded(n) == [k \in 1..n |-> k]
\* a live source whose worker (thread 1) is about to call _update_buffer_size
\* (video_source.py:368) after a period of many drops or of none, with the
\* last n decoded frames in its buffer
RebuildInit ==
  \E b \in RebuildBaselines, counts \in {<<10, 0>>, <<8, 2>>} :
    \E c \in Sizes(b) :
      \E n \in Fills(c) :
        /\ env = Quiet
        /\ source_url = "rtsp://cam"
        /\ is_local_file = FALSE
        /\ rtsp_transport = "tcp"
        /\ initial_buffer_size = b
        /\ buffer_size = c
        /\ connection_failures = 0
        /\ frame_drop_rate = <<0, 0>>
        /\ received_frames_count = counts[1]
        /\ dropped_frames_count = counts[2]
        /\ connection_ok = TRUE
        /\ is_running = TRUE
        /\ connection_attempts = 1
        /\ connection_callback = "none"
        /\ fps = 30
        /\ queues = [q \in QIds |->
                       IF q = 1 THEN [items |-> Decoded(n), maxsize |-> c]
                       ELSE NewQueue(0)]
        /\ frame_queue = 1
        /\ stop_event = FALSE
        /\ thread = 1
        /\ dummy_frame = "placeholder"
        /\ pc = [t \in Threads |-> IF t = 1 THEN "w_resize"
                                   ELSE IF t \in Workers THEN "dead" ELSE "idle"]
        /\ ctx = [t \in Threads |-> "none"]
        /\ joinee = [t \in Threads |-> 0]
        /\ result = [t \in Callers |-> "none"]
        /\ wl = [w \in Workers |-> NoLocals]
        /\ next_frame = n + 1
        /\ stopped = FALSE
        /\ gpc = "idle"
        /\ gref = 0
        /\ got = NoFrame
        /\ status = NoStatus
        /\ ProbeIdle
        /\ conns = NoConns
        /\ connection_listeners = {}
        /\ listener_calls = [l \in Listeners |-> 0]
        /\ owed = [l \in Listeners |-> FALSE]
        /\ notified = <<>>
        /\ run = BrokenRun
        /\ LoadCameraConfigs(NoConfigs)

RebuildNext ==
  \/ \E w \in Workers : WResize(w)
  \/ \E w \in Workers : WGrow(w)
  \/ \E w \in Workers : WShrink(w)
  \/ \E w \in Workers : WRefill(w)

RebuildSpec == RebuildInit /\ [][RebuildNext]_vars

\* C30: when the grow branch of _update_buffer_size has rebuilt the buffer,
\* the new buffer holds every frame that was buffered, in the same order,
\* whatever the capacity was, above 60 included; when the shrink branch has,
\* it holds the most recent new_buffer_size of them (all if fewer) in their
\* order.
C30_RebuildKeepsFrames ==
  [][\A w \in Workers :
       /\ (WGrow(w) /\ pc'[w] = "w_full") =>
            queues'[frame_queue'].items = Decoded(next_frame - 1)
       /\ (WRefill(w) /\ pc'[w] = "w_full") =>
            queues'[frame_queue'].items =
              LastN(Decoded(next_frame - 1), buffer_size')]_vars

\* ---------------------------------------------------------------------------
\* The synchronization period as the interpreter computes it
\* (sync_manager.py:168-189).  self.sync_interval is a Python float, an IEEE
\* 754 double: every operation returns the double nearest to the exact
\* result, ties to the even significand.  A double is held here as a whole
\* number of units of 2^-Scale seconds, written in limbs of LimbBits bits,
\* lowest limb first; all the doubles of this computation lie in [2^-8, 1]
\* and are whole numbers of such units.
\* ---------------------------------------------------------------------------
LimbBits == 12
Scale == 60
Significand == 53
GuardBits == 12
MaxAdjustments == 165
Base == 2 ^ LimbBits

RECURSIVE Trim(_)
Trim(s) ==
  IF s = <<>> \/ s[Len(s)] # 0 THEN s ELSE Trim(SubSeq(s, 1, Len(s) - 1))

\* the limbs of the number whose (unnormalised) limbs are s, plus the carry c
RECURSIVE Limbs(_, _)
Limbs(s, c) ==
  IF s = <<>>
  THEN IF c = 0 THEN <<>> ELSE <<c % Base>> \o Limbs(<<>>, c \div Base)
  ELSE LET v == Head(s) + c
       IN  <<v % Base>> \o Limbs(Tail(s), v \div Base)

LimbAt(a, i) == IF i >= 1 /\ i <= Len(a) THEN a[i] ELSE 0
BigOf(n) == Limbs(<<>>, n)
BigAdd(a, b) ==
  Trim(Limbs([i \in 1..Max(Len(a), Len(b)) |-> LimbAt(a, i) + LimbAt(b, i)], 0))

\* a - b for a >= b, by borrowing
RECURSIVE Borrowing(_, _, _, _)
Borrowing(a, b, i, borrow) ==
  IF i > Len(a) THEN <<>>
  ELSE LET v == a[i] - LimbAt(b, i) - borrow
       IN  IF v < 0 THEN <<v + Base>> \o Borrowing(a, b, i + 1, 1)
                    ELSE <<v>> \o Borrowing(a, b, i + 1, 0)
BigSub(a, b) == Trim(Borrowing(a, b, 1, 0))

RECURSIVE Column(_, _, _, _)
Column(a, b, k, i) ==
  IF i > k THEN 0
  ELSE LimbAt(a, i) * LimbAt(b, k + 1 - i) + Column(a, b, k, i + 1)
BigMul(a, b) ==
  IF a = <<>> \/ b = <<>> THEN <<>>
  ELSE Trim(Limbs([k \in 1..(Len(a) + Len(b) - 1) |-> Column(a, b, k, 1)], 0))

\* a < b, for trimmed a and b
RECURSIVE LessFrom(_, _, _)
LessFrom(a, b, i) ==
  IF i = 0 THEN FALSE
  ELSE IF a[i] # b[i] THEN a[i] < b[i] ELSE LessFrom(a, b, i - 1)
BigLess(a, b) ==
  IF Len(a) # Len(b) THEN Len(a) < Len(b) ELSE LessFrom(a, b, Len(a))
BigDist(a, b) == IF BigLess(a, b) THEN BigSub(b, a) ELSE BigSub(a, b)

RECURSIVE Width(_)
Width(n) == IF n = 0 THEN 0 ELSE 1 + Width(n \div 2)
BitLen(a) == IF a = <<>> THEN 0 ELSE LimbBits * (Len(a) - 1) + Width(a[Len(a)])
Bit(a, k) == (LimbAt(a, k \div LimbBits + 1) \div 2 ^ (k % LimbBits)) % 2
\* no bit of a below bit k is set
LowZero(a, k) ==
  /\ \A i \in 1..(k \div LimbBits) : LimbAt(a, i) = 0
  /\ LimbAt(a, k \div LimbBits + 1) % 2 ^ (k % LimbBits) = 0

ShiftRight(a, k) ==
  LET q == k \div LimbBits
      r == k % LimbBits
      n == Len(a) - q
  IN  IF n <= 0 THEN <<>>
      ELSE Trim([i \in 1..n |->
                   LimbAt(a, q + i) \div 2 ^ r
                   + (LimbAt(a, q + i + 1) % 2 ^ r) * 2 ^ (LimbBits - r)])
ShiftLeft(a, k) ==
  LET q == k \div LimbBits
      r == k % LimbBits
  IN  IF a = <<>> THEN <<>>
      ELSE [i \in 1..q |-> 0]
           \o Trim(Limbs([i \in 1..Len(a) |-> a[i] * 2 ^ r], 0))

\* p / 2^k rounded to the nearest whole number, ties to even
RoundShift(p, k) ==
  IF k = 0 THEN p
  ELSE LET q == ShiftRight(p, k)
       IN  IF Bit(p, k - 1) = 1 /\ (~LowZero(p, k - 1) \/ Bit(q, 0) = 1)
           THEN BigAdd(q, <<1>>) ELSE q
\* the double nearest to p / 2^s units: Significand significant bits
Round53(p, s) ==
  LET k == Max(s, BitLen(p) - Significand)
  IN  ShiftLeft(RoundShift(p, k), k - s)

DAdd(a, b) == Round53(BigAdd(a, b), 0)
DSub(a, b) == Round53(BigSub(a, b), 0)
DMul(a, b) == Round53(BigMul(a, b), Scale)

\* the quotient of the number with limbs a (highest first in the recursion)
\* by the small number d, and what is left over
RECURSIVE DivFrom(_, _, _, _)
DivFrom(a, d, i, rem) ==
  IF i = 0 THEN [q |-> <<>>, rem |-> rem]
  ELSE LET v == rem * Base + a[i]
           rest == DivFrom(a, d, i - 1, v % d)
       IN  [q |-> rest.q \o <<v \div d>>, rem |-> rest.rem]
\* the double n / d for small whole n and d: the quotient to GuardBits more
\* bits than a unit, a remainder recorded in its lowest bit, then rounded
DDiv(n, d) ==
  LET r == DivFrom(ShiftLeft(BigOf(n), Scale + GuardBits), d,
                   Len(ShiftLeft(BigOf(n), Scale + GuardBits)), 0)
      q == Trim(r.q)
      sticky == IF r.rem = 0 \/ Bit(q, 0) = 1 THEN q ELSE BigAdd(q, <<1>>)
  IN  Round53(sticky, GuardBits)

DOne == DDiv(1, 1)
\* damping = 0.2 (sync_manager.py:185)
Damping == DDiv(1, 5)
\* target_interval = 1.0 / min_fps (sync_manager.py:182)
TargetInterval(min_fps) == DDiv(1, min_fps)
\* without the factor (1.0 - damping)
DampedPeriod_undamped(p, target) == DAdd(p, DMul(Damping, target))
\* (1.0 - damping) * self.sync_interval + damping * target_interval
\* (sync_manager.py:186)
DampedPeriod(p, target) ==
  DAdd(DMul(DSub(DOne, Damping), p), DMul(Damping, target))
\* max(1.0 / 60.0, min(1.0 / 5.0, self.sync_interval)) (sync_manager.py:189)
DMin(a, b) == IF BigLess(b, a) THEN b ELSE a
DMax(a, b) == IF BigLess(a, b) THEN b ELSE a
ClampPeriod(p) == DMax(DDiv(1, 60), DMin(DDiv(1, 5), p))

\* two connected sources whose fps stays 30 and 10
SteadyFps == [SyncOff EXCEPT !.cams = {"main", "cam2"}, !.ops = {"enable"},
                             !.oks = {TRUE}, !.fps = {30, 10},
                             !.rounds = MaxAdjustments]
\* the lowest fps among the connected cameras (sync_manager.py:171-181)
SteadyMinFps == CHOOSE f \in senv.fps : \A g \in senv.fps : f <= g

\* SyncManager.__init__ with self.sync_interval = 1.0 / 30.0 as a double
\* (sync_manager.py:21-35)
PeriodInit ==
  /\ SourceInit(Quiet)
  /\ ManagerIs(ConnectedAll(LoadedManager(
       [id \in CameraIds |-> IF id \in SteadyFps.cams THEN "enabled"
                                                    ELSE "absent"])))
  /\ senv = SteadyFps
  /\ sync_enabled = FALSE
  /\ sync_processing = FALSE
  /\ sync_interval = DDiv(1, 30)
  /\ sync_thread = 0
  /\ sync_stop_event = FALSE
  /\ process_callbacks = <<>>
  /\ frame_buffers = <<>>
  /\ sync_clock = 0
  /\ lp = [l \in Loops |-> NoLoop]
  /\ dispatched = [l \in Loops |-> <<>>]
  /\ spc = "idle"
  /\ bt = NoBatch
  /\ sync_rounds = 0

\* one call of _adjust_sync_interval (sync_manager.py:168-189)
AdjustSyncInterval ==
  /\ sync_rounds < senv.rounds
  /\ sync_rounds' = sync_rounds + 1
  /\ sync_interval' =
       ClampPeriod(DampedPeriod(sync_interval, TargetInterval(SteadyMinFps)))
  /\ UNCHANGED <<sync_processing, frame_buffers, sync_clock, dispatched, lp,
                 syncSetup, outsideSync>>

PeriodNext == AdjustSyncInterval
PeriodSpec == PeriodInit /\ [][PeriodNext]_vars

\* one unit in the last place of the double 0.1: 2^-56 s
UlpOfTarget == ShiftLeft(<<1>>, Scale - 56)
NearTarget(p) ==
  ~BigLess(UlpOfTarget, BigDist(p, TargetInterval(SteadyMinFps)))
WithinClamp(p) == ~BigLess(p, DDiv(1, 60)) /\ ~BigLess(DDiv(1, 5), p)

\* C23 as stated: every adjustment brings the period strictly closer to
\* 0.1 s, never takes it above 0.1 s and keeps it within [1/60, 1/5]
C23_StrictlyCloser ==
  [][AdjustSyncInterval =>
       /\ BigLess(BigDist(sync_interval', TargetInterval(SteadyMinFps)),
                  BigDist(sync_interval, TargetInterval(SteadyMinFps)))
       /\ ~BigLess(TargetInterval(SteadyMinFps), sync_interval')
       /\ WithinClamp(sync_interval')]_vars

\* C23, amended: every adjustment brings the period strictly closer to 0.1 s
\* or leaves it within one unit in the last place (2^-56 s) of 0.1 s; the
\* period never exceeds 0.1 s by more than that unit and stays within
\* [1/60, 1/5]
C23_CloserUntilOneUlp ==
  [][AdjustSyncInterval =>
       /\ \/ BigLess(BigDist(sync_interval', TargetInterval(SteadyMinFps)),
                     BigDist(sync_interval, TargetInterval(SteadyMinFps)))
          \/ NearTarget(sync_interval')
       /\ ~BigLess(BigAdd(TargetInterval(SteadyMinFps), UlpOfTarget),
                   sync_interval')
       /\ WithinClamp(sync_interval')]_vars

\* the period has settled one unit above 0.1 s
C23_SettledAbove ==
  /\ sync_rounds > 0
  /\ sync_interval = BigAdd(TargetInterval(SteadyMinFps), UlpOfTarget)

\* ---------------------------------------------------------------------------
\* Stalls, lost connections and retries of the decode worker
\* ---------------------------------------------------------------------------
\* worker w leaves av.open, with a frame or with an exception
Attempts(w) == pc[w] = "w_open" /\ pc'[w] # "w_open"

\* C31: a worker that left the frame loop because the stream stalled and
\* _should_switch_transport recommended a switch makes its next connection
\* attempt with the other transport than the one it stalled on.
C31_StallSwitchesTransport ==
  [][\A w \in Workers :
       (Attempts(w) /\ wl[w].promised # "none") =>
         rtsp_transport # wl[w].promised]_vars

\* worker w is past a lost connection in this step: it leaves its except
\* handler, or the code after a frame loop that ended (video_source.py:391-412)
LosesConnection(w) ==
  \/ Handled(w)
  \/ pc[w] = "w_closed" /\ pc'[w] # "w_closed"

\* C32: every loss of the connection of a live source, by an exception or by
\* the end of the stream, leaves connection_ok false, adds one to
\* connection_failures and sends the worker to switch_transport_protocol when
\* _should_switch_transport recommends it, before the backoff sleep; the
\* count goes back to 0 only as an av.open succeeds.
C32_EveryLossCounted ==
  /\ [][\A w \in Workers :
          (LosesConnection(w) /\ ~is_local_file) =>
            /\ ~connection_ok'
            /\ connection_failures' = connection_failures + 1
            /\ ShouldSwitchTransport(connection_failures') =>
                 pc'[w] = "switch_call"]_vars
  /\ [][(connection_failures' = 0 /\ connection_failures # 0) =>
          \E w \in Workers : pc[w] = "w_open" /\ pc'[w] = "w_decode"]_vars

\* C33: a failure of a local-file source is terminal: the except handler adds
\* one to connection_failures and the worker ends, with no backoff sleep and
\* no further attempt; only live sources are retried.
C33_LocalFailureTerminal ==
  /\ [][\A w \in Workers :
          (Handled(w) /\ is_local_file) =>
            /\ connection_failures' = connection_failures + 1
            /\ pc'[w] \notin {"w_retry", "switch_call"}]_vars
  /\ [][\A w \in Workers : Sleeps(w) => ~is_local_file]_vars

\* ---------------------------------------------------------------------------
\* The registry and the sources it constructs
\* ---------------------------------------------------------------------------
\* C34: every change of connection_ok of a source of the registry is
\* forwarded to the registry's fan-out: the worker that start() launched
\* inside the constructor (auto_connect) changes connection_ok only once
\* add_camera has set the connection callback.
C34_TransitionsForwarded ==
  [][(env.registry /\ connection_ok' # connection_ok) =>
       /\ connection_callback = "registry"
       /\ notified' = Window(Append(notified, connection_ok'))]_vars

\* get_frame has returned the frame decoded as number f
Returned_frame(f) == got.kind = "frame" /\ got.id = f

\* C35: the frames get_frame returns come in decode order: once the frame
\* decoded as number f has been returned, no frame decoded before it is
\* returned any more, resizes included.
C35_ReturnedInDecodeOrder ==
  \A f \in 1..MaxFrames : Returned_frame(f) => f > got.newest

\* C36: the active camera is None exactly when the cameras dict is empty;
\* add_camera makes the new camera the active one only when none was active
\* and leaves the active camera as it was otherwise.
C36_ActiveIffNonEmpty ==
  /\ [](active_camera_id = "none" <=> cameras = <<>>)
  /\ [][\A id \in CameraIds, has_url, auto \in BOOLEAN :
          AddCamera(id, has_url, auto) =>
            active_camera_id' = IF active_camera_id = "none" THEN id
                                ELSE active_camera_id]_vars

\* C36 witness: "cam2" was added while "main" was the active camera, which
\* it still is
C36_AddedBesideActive ==
  /\ mgr_result = [op |-> "add", id |-> "cam2", val |-> TRUE]
  /\ active_camera_id = "main"
  /\ Keys(cameras) = {"main", "cam2"}

\* ---------------------------------------------------------------------------
\* The capacity of the buffer
\* ---------------------------------------------------------------------------
\* the capacity c is at least 1 and between the baseline and the larger of
\* the baseline and 60
CapacityInBounds(c) ==
  /\ c >= 1
  /\ initial_buffer_size <= c
  /\ c <= Max(initial_buffer_size, MaxBufferSize)

\* C37: an evaluation of the resize rule on a source whose capacity is at
\* least 1 and within [b, max(b, 60)], b being the baseline, leaves it so, and
\* when it is over the queue in use has the capacity buffer_size records.
C37_CapacityBounds ==
  [][\A w \in Workers :
       (Evaluated(w) /\ CapacityInBounds(buffer_size)) =>
         /\ CapacityInBounds(buffer_size')
         /\ queues'[frame_queue'].maxsize = buffer_size']_vars

\* C38: in every state of a source that has a locator, from construction on,
\* is_local_file is true exactly when the locator is no rtsp:// URL, so that
\* get_status reports the right flag for a source never started.
C38_LocalFlagMatchesLocator ==
  /\ source_url # "" => (is_local_file <=> ~IsRtsp(source_url))
  /\ (status # NoStatus /\ source_url # "") =>
       (status.is_local_file <=> ~IsRtsp(source_url))

\* ---------------------------------------------------------------------------
\* The loop threads of the SyncManager
\* ---------------------------------------------------------------------------
\* C39: whatever enable_sync(True) and enable_sync(False) calls are made, a
\* timed-out join included, at most one _sync_loop thread is alive.
C39_AtMostOneSyncLoop == Cardinality(LiveLoops) <= 1

\* C40: every VideoSource that is running is the value of a key of the
\* cameras dict, whatever adds and removes were made, an add with an id that
\* is already a key included.
C40_RunningSourcesOwned ==
  \A s \in SrcIds :
    sources[s].state = "running" =>
      \E i \in DOMAIN cameras : cameras[i].src = s
====
